---- MODULE Spec2Model ----
(***************************************************************************)
(* Session and element-handle lifecycle of selenium_mcp                    *)
(* (src/src/selenium_mcp/core/session_manager.py).                         *)
(*                                                                         *)
(* Spec      : SessionManager under concurrent asyncio tasks.  A step of   *)
(*             a task runs from one suspension point (a contended lock,    *)
(*             the awaited factory call, the awaited driver.quit) to the   *)
(*             next one.                                                   *)
(* SpecElem  : the element registry of one BrowserSession.                 *)
(* SpecNoClear : the element registry when clear_elements is never called. *)
(* SpecSweep : sweep passes under every expiration policy, with the scans  *)
(*             observed.                                                   *)
(* SpecSweeper : the SessionSweeper loop and the server lifespan (start,   *)
(*             requests, stop, close_all) around the manager.              *)
(* SpecMap   : map_selenium_error (utils/error_mapper.py) applied to every *)
(*             exception of the model.                                     *)
(* SpecTools : concurrent query_elements tool calls, with their element    *)
(*             registrations, beside create_session and close_session.     *)
(* SpecList  : list_sessions over sessions of every browser type, with     *)
(*             browsers that may stop answering.                           *)
(* SpecLive  : the calls that take the locks, under progress conditions.   *)
(* SpecServing : the sweeper running beside the requests, never stopped,   *)
(*             under progress conditions.                                  *)
(* SpecRestart : one SessionSweeper started and stopped repeatedly.        *)
(* SpecActivity : the calls that read or write last_activity.              *)
(***************************************************************************)
EXTENDS Integers, Naturals, Sequences, FiniteSets, TLC

\* ---- bounds of the model ------------------------------------------------
NumTasks == 2          \* concurrent callers (tool calls, sweeper, shutdown)
MaxIds == 2            \* drivers the factory provisions in one run (then it fails)
MaxTime == 2           \* clock ticks
MaxCapacity == 2       \* largest max_sessions the manager is constructed with
MaxRefs == 2           \* distinct WebElements of the page
MaxRegistrations == 3  \* register_element calls on one session in one run
MaxLoops == 3          \* tasks the start() calls of one run create
MaxListed == 2         \* elements of a session whose summaries are listed

Tasks == 1..NumTasks
SessionIds == 1..MaxIds
NoTask == 0
UnknownId == 0         \* a session id that was never issued ("unknown-id")

VARIABLES
    max_sessions,          \* SessionManager._max_sessions
    max_lifetime_seconds,  \* SessionManager._max_lifetime_seconds
    max_idle_seconds,      \* SessionManager._max_idle_seconds
    sessions,              \* SessionManager._sessions: id -> BrowserSession
    mgr_lock,              \* SessionManager._lock: the task holding it
    sess_lock,             \* BrowserSession._lock of every session ever made
    next_uuid,             \* the next fresh session id (uuid4)
    now,                   \* time.time()
    pc,                    \* each task's position
    op,                    \* the manager call each task is in
    arg,                   \* session_id of the close_session in progress
    session,               \* close_session's local: the popped session
    pending,               \* sweep_expired/close_all: ids still to close
    count,                 \* sweep_expired/close_all: the local count
    ret,                   \* what each task's latest call returned or raised
    quit_calls,            \* per driver: invocations of driver.quit
    stuck,                 \* drivers whose quit raised (the logged warnings)
    true_returns,          \* per session id: close_session calls that returned True
    seen_absent,           \* ids a lookup has found absent after their removal
    orphaned               \* a browser was launched by a create that then raised

mgr_vars == <<max_sessions, max_lifetime_seconds, max_idle_seconds, sessions,
              mgr_lock, sess_lock, next_uuid, now, pc, op, arg, session,
              pending, count, ret, quit_calls, stuck, true_returns,
              seen_absent, orphaned>>

\* One BrowserSession taken alone (SpecElem)
VARIABLES
    element_map,           \* BrowserSession._element_map: n (for "elem_n") -> ref
    element_counter,       \* BrowserSession._element_counter
    last_activity,         \* BrowserSession.last_activity
    detached,              \* WebElements no longer attached to the DOM
    unreachable,           \* the browser no longer answers the driver's commands
    elem_ret,              \* what the latest element-registry call returned or raised
    issued,                \* the ids register_element has returned, in order
    reported_stale         \* ids for which get_element raised ElementStaleError

elem_vars == <<element_map, element_counter, last_activity, detached,
               unreachable, elem_ret, issued, reported_stale>>

\* The sweeper and the server lifespan around the manager, and what the
\* scans of the sweep passes have seen
VARIABLES
    shutdown_event,        \* SessionSweeper._shutdown_event is set
    sweeper_pc,            \* SessionSweeper._task: where the sweep loop rests
    must_cancel,           \* _task.cancel() was called and is not yet delivered
    lifespan_pc,           \* app_lifespan: its position
    scan_idle,             \* per task: ids its sweep scans saw idle for too long
    scan_old,              \* per task: ids its sweep scans saw older than the lifetime
    loops,                 \* per task start() has created: where its _sweep_loop is
    task,                  \* SessionSweeper._task: the task created last
    last_call              \* the latest start()/stop() call on the sweeper

\* The tasks asyncio.create_task(self._sweep_loop()) has made, in order
LoopIds == 1..MaxLoops
NoLoop == 0

\* The tasks of a sweeper that is started and stopped repeatedly
rst_vars == <<loops, task, last_call>>

swp_vars == <<shutdown_event, sweeper_pc, must_cancel, lifespan_pc,
              scan_idle, scan_old, rst_vars>>

\* map_selenium_error taken alone (SpecMap)
VARIABLES
    exc,                   \* the exception handed to map_selenium_error
    mapped                 \* what map_selenium_error returned for it

map_vars == <<exc, mapped>>

\* The tool calls that work on the sessions of the manager (SpecTools)
VARIABLES
    registry,              \* per session: its _element_map and _element_counter
    browser,               \* per session: BrowserSession.browser
    target,                \* per task: the session its tool call obtained
    found,                 \* per task: the elements query_elements has still to register
    results,               \* per task: the ids its query_elements call has received
    crashed,               \* drivers whose browser no longer answers
    listed                 \* what the latest list_sessions call returned or raised

tool_vars == <<registry, browser, target, found, results, crashed, listed>>

\* The constructor arguments, never assigned afterwards
cfg_vars == <<max_sessions, max_lifetime_seconds, max_idle_seconds>>

vars == <<mgr_vars, elem_vars, swp_vars, map_vars, tool_vars>>

\* ---- helpers ------------------------------------------------------------
Min(S) == CHOOSE x \in S : \A y \in S : x <= y

Issued == 1..(next_uuid - 1)

\* A result: its kind (a return type or the exception class) and its payload
\* (a session id, a count, the ids of a listing) as a set.
Ret(k, v) == [kind |-> k, val |-> v]

NoRet == Ret("none", {})

\* session_count / len(self._sessions)
session_count == Cardinality(DOMAIN sessions)

\* (mutant) off-by-one capacity check
CapacityReached_OffByOne == session_count > max_sessions

\* create_session: `if len(self._sessions) >= self._max_sessions`
CapacityReached == session_count >= max_sessions

\* (mutant) ids drawn from the free ones, so a removed id is issued again
FreshId_Reused == Min(SessionIds \ DOMAIN sessions)

\* session_id = f"sess_{uuid.uuid4().hex[:16]}": an id never issued before
FreshId == next_uuid

\* (mutant) no exclusive section around check-and-insert
LockFree_Unlocked == TRUE

\* `async with self._lock` can be entered: no task holds the registry lock
LockFree == mgr_lock = NoTask

\* (mutant) every session is bound to the first driver
NewSession_SharedDriver(d, t) == [driver |-> 1, created_at |-> t, last_activity |-> t]

\* BrowserSession(...) as built by create_session
NewSession(d, t) == [driver |-> d, created_at |-> t, last_activity |-> t]

\* (mutant) the registry is rebuilt around the new session
InsertSession_Replace(id, s) == [i \in {id} |-> s]

\* self._sessions[session_id] = session
InsertSession(id, s) == [i \in DOMAIN sessions \cup {id} |->
                            IF i = id THEN s ELSE sessions[i]]

\* (mutant) the session is looked up but left in the registry
PopSession_Get(id) == sessions

\* self._sessions.pop(session_id, None): the registry without session_id
PopSession(id) == [i \in DOMAIN sessions \ {id} |-> sessions[i]]

\* (mutant) the touch also restarts the session's age
TouchSession_ResetsAge(id) ==
    [sessions EXCEPT ![id].last_activity = now, ![id].created_at = now]

\* BrowserSession.touch applied to the registered session id
TouchSession(id) == [sessions EXCEPT ![id].last_activity = now]

\* (mutant) the scan has no idle branch
IsExpired_LifetimeOnly(id) ==
    now - sessions[id].created_at > max_lifetime_seconds

\* (mutant) a session at a limit counts as over it
IsExpired_AtLimit(id) ==
    \/ now - sessions[id].created_at >= max_lifetime_seconds
    \/ now - sessions[id].last_activity >= max_idle_seconds

\* (mutant) a session must be over both limits
IsExpired_Both(id) ==
    /\ now - sessions[id].created_at > max_lifetime_seconds
    /\ now - sessions[id].last_activity > max_idle_seconds

\* get_expired_sessions: the test of one session in the scan
IsExpired(id) ==
    LET age == now - sessions[id].created_at
        idle == now - sessions[id].last_activity
    IN  IF age > max_lifetime_seconds THEN TRUE
        ELSE idle > max_idle_seconds

\* The elements of a list
Elems(l) == {l[i] : i \in 1..Len(l)}

\* `for session_id, session in self._sessions.items()` over the ids not yet
\* visited (a dict iterates in insertion order, which is the order of issue):
\* the expired ones are appended.
RECURSIVE Scan(_)
Scan(ids) ==
    IF ids = {}
    THEN << >>
    ELSE LET id == Min(ids)
         IN  (IF IsExpired(id) THEN <<id>> ELSE << >>) \o Scan(ids \ {id})

\* get_expired_sessions: the list it returns
get_expired_sessions == Scan(DOMAIN sessions)

\* ---- Init: the state after SessionManager.__init__ ------------------------
\* An empty registry, an unlocked lock, no call in progress
RegistryInit ==
    /\ sessions = << >>
    /\ mgr_lock = NoTask
    /\ sess_lock = [i \in SessionIds |-> NoTask]
    /\ next_uuid = 1
    /\ now = 0
    /\ pc = [t \in Tasks |-> "idle"]
    /\ op = [t \in Tasks |-> "none"]
    /\ arg = [t \in Tasks |-> UnknownId]
    /\ session = [t \in Tasks |-> UnknownId]
    /\ pending = [t \in Tasks |-> {}]
    /\ count = [t \in Tasks |-> 0]
    /\ ret = [t \in Tasks |-> NoRet]
    /\ quit_calls = [i \in SessionIds |-> 0]
    /\ stuck = {}
    /\ true_returns = [i \in SessionIds |-> 0]
    /\ seen_absent = {}
    /\ orphaned = FALSE

MgrInit ==
    /\ max_sessions \in 1..MaxCapacity
    /\ max_idle_seconds = 1
    /\ max_lifetime_seconds = 2
    /\ RegistryInit

\* No sweeper task yet, the lifespan not entered, no scan made
SwpInit ==
    /\ shutdown_event = FALSE
    /\ sweeper_pc = "none"
    /\ must_cancel = FALSE
    /\ lifespan_pc = "startup"
    /\ scan_idle = [t \in Tasks |-> {}]
    /\ scan_old = [t \in Tasks |-> {}]
    /\ loops = [l \in LoopIds |-> "none"]
    /\ task = NoLoop
    /\ last_call = "none"

\* A fresh BrowserSession: empty element registry, counter 0.
ElemInit ==
    /\ element_map = << >>
    /\ element_counter = 0
    /\ last_activity = now
    /\ detached = {}
    /\ unreachable = FALSE
    /\ elem_ret = NoRet
    /\ issued = << >>
    /\ reported_stale = {}

\* No exception mapped yet
NoExc == [cls |-> "none", sub |-> FALSE, msg |-> {}]

MapInit ==
    /\ exc = NoExc
    /\ mapped = [code |-> "none", message |-> {}]

\* A BrowserSession is built with an empty element registry and counter 0;
\* no tool call is in progress.
NoElements == [map |-> << >>, counter |-> 0]

CallsInit ==
    /\ registry = [i \in SessionIds |-> NoElements]
    /\ target = [t \in Tasks |-> UnknownId]
    /\ found = [t \in Tasks |-> << >>]
    /\ results = [t \in Tasks |-> << >>]
    /\ crashed = {}
    /\ listed = Ret("none", << >>)

ToolInit ==
    /\ browser = [i \in SessionIds |-> "chrome"]
    /\ CallsInit

Init == MgrInit /\ ElemInit /\ SwpInit /\ MapInit /\ ToolInit

\* ---- SessionManager.create_session ---------------------------------------
\* A task calls create_session and reaches `async with self._lock`.
CallCreate(t) ==
    /\ pc[t] = "idle"
    /\ pc' = [pc EXCEPT ![t] = "create_lock"]
    /\ op' = [op EXCEPT ![t] = "create"]
    /\ ret' = [ret EXCEPT ![t] = NoRet]
    /\ UNCHANGED <<elem_vars, swp_vars, map_vars, tool_vars, cfg_vars, orphaned,
                   sessions, mgr_lock, sess_lock, next_uuid, now, arg, session,
                   pending, count, quit_calls, stuck, true_returns,
                   seen_absent>>

\* The lock is acquired and the capacity check runs; either
\* SessionLimitError leaves through the `async with` (lock released), or
\* the task suspends in `await self._driver_factory.create(...)`.
CreateEnter(t) ==
    /\ pc[t] = "create_lock"
    /\ LockFree
    /\ IF CapacityReached
       THEN /\ pc' = [pc EXCEPT ![t] = "idle"]
            /\ op' = [op EXCEPT ![t] = "none"]
            /\ ret' = [ret EXCEPT ![t] = Ret("SessionLimitError", {})]
            /\ UNCHANGED mgr_lock
       ELSE /\ mgr_lock' = t
            /\ pc' = [pc EXCEPT ![t] = "create_factory"]
            /\ UNCHANGED <<op, ret>>
    /\ UNCHANGED <<elem_vars, swp_vars, map_vars, tool_vars, cfg_vars, orphaned,
                   sessions, sess_lock, next_uuid, now, arg, session, pending,
                   count, quit_calls, stuck, true_returns, seen_absent>>

\* The factory returns a driver: the session is built, inserted and returned.
FactoryReturn(t) ==
    /\ pc[t] = "create_factory"
    /\ next_uuid <= MaxIds
    /\ sessions' = InsertSession(FreshId, NewSession(next_uuid, now))
    /\ next_uuid' = next_uuid + 1
    /\ mgr_lock' = NoTask
    /\ pc' = [pc EXCEPT ![t] = "idle"]
    /\ op' = [op EXCEPT ![t] = "none"]
    /\ ret' = [ret EXCEPT ![t] = Ret("session", {FreshId})]
    /\ UNCHANGED <<elem_vars, swp_vars, map_vars, tool_vars, cfg_vars, orphaned,
                   sess_lock, now, arg, session, pending, count,
                   quit_calls, stuck, true_returns, seen_absent>>

\* What can go wrong in DriverFactory.create: the browser type has no
\* options class, webdriver.Remote fails to launch the browser, or one of the
\* configuration commands sent to the launched browser fails.
FactoryFailures == {"unsupported browser", "launch", "configure"}

\* The exception create raises for a failure: _build_options runs before
\* the `try` and its ValueError leaves as it is; a WebDriverException raised
\* inside the `try` is wrapped in GridConnectionError.
FactoryRaises(f) ==
    IF f = "unsupported browser" THEN "ValueError" ELSE "GridConnectionError"

\* webdriver.Remote has returned a driver when a configuration command
\* fails; the `except` clause raises without calling driver.quit(), and the
\* only reference to the driver is the local variable of create.
Launched(f) == f = "configure"

\* The factory raises: the exception leaves through the `async with`.
FactoryErrors == {FactoryRaises(f) : f \in FactoryFailures}

\* (mutant) the lock is taken and released by hand, and the release is
\* skipped when the factory raises
FactoryFail_KeepsLock(t) ==
    /\ pc[t] = "create_factory"
    /\ \E f \in FactoryFailures :
          /\ ret' = [ret EXCEPT ![t] = Ret(FactoryRaises(f), {})]
          /\ orphaned' = (orphaned \/ Launched(f))
    /\ pc' = [pc EXCEPT ![t] = "idle"]
    /\ op' = [op EXCEPT ![t] = "none"]
    /\ UNCHANGED <<elem_vars, swp_vars, map_vars, tool_vars, cfg_vars,
                   sessions, mgr_lock, sess_lock, next_uuid, now, arg, session,
                   pending, count, quit_calls, stuck, true_returns,
                   seen_absent>>

FactoryFail(t) ==
    /\ pc[t] = "create_factory"
    /\ \E f \in FactoryFailures :
          /\ ret' = [ret EXCEPT ![t] = Ret(FactoryRaises(f), {})]
          /\ orphaned' = (orphaned \/ Launched(f))
    /\ mgr_lock' = NoTask
    /\ pc' = [pc EXCEPT ![t] = "idle"]
    /\ op' = [op EXCEPT ![t] = "none"]
    /\ UNCHANGED <<elem_vars, swp_vars, map_vars, tool_vars, cfg_vars,
                   sessions, sess_lock, next_uuid, now, arg, session, pending,
                   count, quit_calls, stuck, true_returns, seen_absent>>

\* ---- SessionManager.get_session / list_sessions (synchronous) -------------
get_session(t, id) ==
    /\ pc[t] = "idle"
    /\ IF id \in DOMAIN sessions
       THEN /\ sessions' = TouchSession(id)
            /\ ret' = [ret EXCEPT ![t] = Ret("session", {id})]
            /\ UNCHANGED seen_absent
       ELSE /\ ret' = [ret EXCEPT ![t] = Ret("SessionNotFoundError", {})]
            /\ seen_absent' = seen_absent \cup ({id} \cap Issued)
            /\ UNCHANGED sessions
    /\ UNCHANGED <<elem_vars, swp_vars, map_vars, tool_vars, cfg_vars, orphaned,
                   mgr_lock, sess_lock, next_uuid, now, pc, op, arg, session,
                   pending, count, quit_calls, stuck, true_returns>>

\* (mutant) listing counts as activity of every session listed
list_sessions_Touches(t) ==
    /\ pc[t] = "idle"
    /\ ret' = [ret EXCEPT ![t] = Ret("list", DOMAIN sessions)]
    /\ seen_absent' = seen_absent \cup (Issued \ DOMAIN sessions)
    /\ sessions' = [id \in DOMAIN sessions |->
                       [sessions[id] EXCEPT !.last_activity = now]]
    /\ UNCHANGED <<elem_vars, swp_vars, map_vars, tool_vars, cfg_vars, orphaned,
                   mgr_lock, sess_lock, next_uuid, now, pc, op, arg,
                   session, pending, count, quit_calls,
                   stuck, true_returns>>

list_sessions(t) ==
    /\ pc[t] = "idle"
    /\ ret' = [ret EXCEPT ![t] = Ret("list", DOMAIN sessions)]
    /\ seen_absent' = seen_absent \cup (Issued \ DOMAIN sessions)
    /\ UNCHANGED <<elem_vars, swp_vars, map_vars, tool_vars, cfg_vars, orphaned,
                   sessions, mgr_lock, sess_lock, next_uuid, now, pc, op, arg,
                   session, pending, count, quit_calls,
                   stuck, true_returns>>

\* ---- SessionManager.close_session ----------------------------------------
\* close_session has returned `closed` in task t: to the caller of
\* close_session, or to the loop of sweep_expired / close_all.
AfterClose(t, closed) ==
    IF op[t] = "close"
    THEN /\ pc' = [pc EXCEPT ![t] = "idle"]
         /\ op' = [op EXCEPT ![t] = "none"]
         /\ arg' = [arg EXCEPT ![t] = UnknownId]
         /\ ret' = [ret EXCEPT ![t] = Ret(IF closed THEN "True" ELSE "False", {})]
         /\ UNCHANGED <<pending, count>>
    ELSE LET c == IF closed THEN count[t] + 1 ELSE count[t]
             rest == pending[t] \ {arg[t]}
         IN  IF rest = {}
             THEN /\ pc' = [pc EXCEPT ![t] = "idle"]
                  /\ op' = [op EXCEPT ![t] = "none"]
                  /\ arg' = [arg EXCEPT ![t] = UnknownId]
                  /\ pending' = [pending EXCEPT ![t] = {}]
                  /\ count' = [count EXCEPT ![t] = 0]
                  /\ ret' = [ret EXCEPT ![t] = Ret("count", {c})]
             ELSE /\ pc' = [pc EXCEPT ![t] = "close_lock"]
                  /\ arg' = [arg EXCEPT ![t] = Min(rest)]
                  /\ pending' = [pending EXCEPT ![t] = rest]
                  /\ count' = [count EXCEPT ![t] = c]
                  /\ UNCHANGED <<op, ret>>

CallClose(t, id) ==
    /\ pc[t] = "idle"
    /\ pc' = [pc EXCEPT ![t] = "close_lock"]
    /\ op' = [op EXCEPT ![t] = "close"]
    /\ arg' = [arg EXCEPT ![t] = id]
    /\ ret' = [ret EXCEPT ![t] = NoRet]
    /\ UNCHANGED <<elem_vars, swp_vars, map_vars, tool_vars, cfg_vars, orphaned,
                   sessions, mgr_lock, sess_lock, next_uuid, now, session,
                   pending, count, quit_calls, stuck, true_returns,
                   seen_absent>>

\* The lock is acquired and the session popped.  Absent: return False.
\* Present: session._lock is taken and the task suspends in
\* `await anyio.to_thread.run_sync(session.driver.quit)`.
CloseEnter(t) ==
    /\ pc[t] = "close_lock"
    /\ LockFree
    /\ IF arg[t] \in DOMAIN sessions
       THEN /\ sessions' = PopSession(arg[t])
            /\ session' = [session EXCEPT ![t] = sessions[arg[t]].driver]
            /\ mgr_lock' = t
            /\ sess_lock' = [sess_lock EXCEPT ![arg[t]] = t]
            /\ quit_calls' = [quit_calls EXCEPT ![sessions[arg[t]].driver] = @ + 1]
            /\ pc' = [pc EXCEPT ![t] = "close_quit"]
            /\ UNCHANGED <<op, arg, pending, count, ret>>
       ELSE /\ AfterClose(t, FALSE)
            /\ UNCHANGED <<sessions, session, mgr_lock, sess_lock, quit_calls>>
    /\ UNCHANGED <<elem_vars, swp_vars, map_vars, tool_vars, cfg_vars, orphaned,
                   next_uuid, now, stuck, true_returns,
                   seen_absent>>

\* driver.quit returns, or raises.
QuitOutcomes == {"returns", "Exception"}

\* (mutant) no handler around quit
Swallowed_Never(o) == FALSE

\* `except Exception as e: logger.warning(...)`: what the handler catches
Swallowed(o) == o = "Exception"

\* An exception leaves the call in progress (close_session and, around it,
\* the loop of sweep_expired / close_all) and reaches the caller.
Propagate(t, e) ==
    /\ pc' = [pc EXCEPT ![t] = "idle"]
    /\ op' = [op EXCEPT ![t] = "none"]
    /\ arg' = [arg EXCEPT ![t] = UnknownId]
    /\ pending' = [pending EXCEPT ![t] = {}]
    /\ count' = [count EXCEPT ![t] = 0]
    /\ ret' = [ret EXCEPT ![t] = Ret(e, {})]

\* The awaited quit completes with outcome o; both `async with` blocks are
\* left (locks released); close_session returns True unless the exception
\* is not caught.
QuitStep(t, o) ==
    /\ pc[t] = "close_quit"
    /\ mgr_lock' = NoTask
    /\ sess_lock' = [sess_lock EXCEPT ![arg[t]] = NoTask]
    /\ session' = [session EXCEPT ![t] = UnknownId]
    /\ stuck' = IF o = "returns" THEN stuck ELSE stuck \cup {session[t]}
    /\ IF o = "returns" \/ Swallowed(o)
       THEN /\ true_returns' = [true_returns EXCEPT ![arg[t]] = @ + 1]
            /\ AfterClose(t, TRUE)
       ELSE /\ UNCHANGED true_returns
            /\ Propagate(t, o)
    /\ UNCHANGED <<elem_vars, swp_vars, map_vars, tool_vars, cfg_vars, orphaned,
                   sessions, next_uuid, now, quit_calls,
                   seen_absent>>

QuitReturn(t) == \E o \in QuitOutcomes : QuitStep(t, o)

\* ---- SessionManager.sweep_expired / close_all ------------------------------
\* The ids to close are fixed (the scan, or the key snapshot); with none the
\* call returns 0 at once, otherwise the loop calls close_session in
\* registry order.
StartLoop(t, name, ids) ==
    /\ pc[t] = "idle"
    /\ IF ids = {}
       THEN /\ ret' = [ret EXCEPT ![t] = Ret("count", {0})]
            /\ UNCHANGED <<pc, op, arg, pending>>
       ELSE /\ pc' = [pc EXCEPT ![t] = "close_lock"]
            /\ op' = [op EXCEPT ![t] = name]
            /\ arg' = [arg EXCEPT ![t] = Min(ids)]
            /\ pending' = [pending EXCEPT ![t] = ids]
            /\ ret' = [ret EXCEPT ![t] = NoRet]
    /\ UNCHANGED <<elem_vars, map_vars, tool_vars, cfg_vars, orphaned,
                   sessions, mgr_lock, sess_lock, next_uuid, now, session,
                   count, quit_calls, stuck, true_returns, seen_absent>>

\* expired = await self.get_expired_sessions(), then the loop
sweep_expired(t) ==
    /\ StartLoop(t, "sweep", Elems(get_expired_sessions))
    /\ UNCHANGED swp_vars

\* session_ids = list(self._sessions.keys()), then the loop
close_all(t) ==
    /\ StartLoop(t, "close_all", DOMAIN sessions)
    /\ UNCHANGED swp_vars

\* ---- time ------------------------------------------------------------------
Tick ==
    /\ now < MaxTime
    /\ now' = now + 1
    /\ UNCHANGED <<elem_vars, swp_vars, map_vars, tool_vars, cfg_vars, orphaned,
                   sessions, mgr_lock, sess_lock, next_uuid, pc, op, arg,
                   session, pending, count, ret, quit_calls,
                   stuck, true_returns, seen_absent>>

\* Session ids a caller can name: the issued ones and an unknown one.
Nameable == Issued \cup {UnknownId}

Next ==
    \/ \E t \in Tasks : CallCreate(t)
    \/ \E t \in Tasks : CreateEnter(t)
    \/ \E t \in Tasks : FactoryReturn(t)
    \/ \E t \in Tasks : FactoryFail(t)
    \/ \E t \in Tasks : \E id \in Nameable : get_session(t, id)
    \/ \E t \in Tasks : list_sessions(t)
    \/ \E t \in Tasks : \E id \in Nameable : CallClose(t, id)
    \/ \E t \in Tasks : CloseEnter(t)
    \/ \E t \in Tasks : QuitReturn(t)
    \/ \E t \in Tasks : sweep_expired(t)
    \/ \E t \in Tasks : close_all(t)
    \/ Tick

Spec == Init /\ [][Next]_vars

\* The calls make progress.  asyncio.Lock wakes its waiters in FIFO order, so
\* a task waiting at `async with self._lock` enters when its turn comes; the
\* factory call and the teardown return or raise.
Progress(t) ==
    /\ SF_vars(CreateEnter(t))
    /\ SF_vars(CloseEnter(t))
    /\ WF_vars(FactoryReturn(t) \/ FactoryFail(t))
    /\ WF_vars(QuitReturn(t))

\* The calls that take the locks, under the progress conditions
NextLive ==
    \/ \E t \in Tasks : CallCreate(t)
    \/ \E t \in Tasks : CreateEnter(t)
    \/ \E t \in Tasks : FactoryReturn(t)
    \/ \E t \in Tasks : FactoryFail(t)
    \/ \E t \in Tasks : \E id \in Nameable : CallClose(t, id)
    \/ \E t \in Tasks : CloseEnter(t)
    \/ \E t \in Tasks : QuitReturn(t)
    \/ \E t \in Tasks : sweep_expired(t)
    \/ \E t \in Tasks : close_all(t)
    \/ Tick

SpecLive ==
    /\ Init
    /\ [][NextLive]_vars
    /\ \A t \in Tasks : Progress(t)

\* ---- BrowserSession: the element registry ----------------------------------
Refs == 1..MaxRefs
ElemIds == 1..MaxRegistrations
UnknownElem == 0       \* an id that is never issued ("unknown_id")

\* BrowserSession.touch: self.last_activity = time.time()
touch == now

\* (mutant) the entry is deleted together with every entry registered after it
DelElement_AndLater(id) ==
    [i \in {j \in DOMAIN element_map : j < id} |-> element_map[i]]

\* del self._element_map[element_id]
DelElement(id) == [i \in DOMAIN element_map \ {id} |-> element_map[i]]

\* (mutant) the id is taken from the size of the registry
RegisterOne_FromSize(m, c, el) ==
    LET n == Cardinality(DOMAIN m) + 1
    IN  [map |-> [i \in DOMAIN m \cup {n} |-> IF i = n THEN el ELSE m[i]],
         counter |-> c + 1,
         id |-> n]

\* (mutant) the element is stored before the counter is incremented, under
\* the previous counter value
RegisterOne_Misfiled(m, c, el) ==
    [map |-> [i \in DOMAIN m \cup {c} |-> IF i = c THEN el ELSE m[i]],
     counter |-> c + 1,
     id |-> c + 1]

\* (mutant) the incremented counter is not written back
RegisterOne_NoIncrement(m, c, el) ==
    [map |-> [i \in DOMAIN m \cup {c + 1} |-> IF i = c + 1 THEN el ELSE m[i]],
     counter |-> c,
     id |-> c + 1]

\* The state after register_element(el) on registry m with counter c, and
\* the id it returns: counter + 1, formatted as "elem_<counter>".
RegisterOne(m, c, el) ==
    [map |-> [i \in DOMAIN m \cup {c + 1} |-> IF i = c + 1 THEN el ELSE m[i]],
     counter |-> c + 1,
     id |-> c + 1]

\* register_elements: [self.register_element(el) for el in elements]
RECURSIVE RegisterAll(_, _, _)
RegisterAll(m, c, els) ==
    IF els = << >>
    THEN [map |-> m, counter |-> c, ids |-> << >>]
    ELSE LET one == RegisterOne(m, c, Head(els))
             rest == RegisterAll(one.map, one.counter, Tail(els))
         IN  [map |-> rest.map, counter |-> rest.counter,
              ids |-> <<one.id>> \o rest.ids]

register_element(el) ==
    /\ Len(issued) < MaxRegistrations
    /\ LET one == RegisterOne(element_map, element_counter, el)
       IN  /\ element_map' = one.map
           /\ element_counter' = one.counter
           /\ issued' = Append(issued, one.id)
           /\ elem_ret' = Ret("id", {one.id})
    /\ last_activity' = touch
    /\ UNCHANGED <<mgr_vars, swp_vars, map_vars, tool_vars,
                   detached, unreachable, reported_stale>>

register_elements(els) ==
    /\ Len(issued) + Len(els) <= MaxRegistrations
    /\ LET all == RegisterAll(element_map, element_counter, els)
       IN  /\ element_map' = all.map
           /\ element_counter' = all.counter
           /\ issued' = issued \o all.ids
           /\ elem_ret' = Ret("ids", {all.ids[i] : i \in 1..Len(all.ids)})
    /\ last_activity' = IF els = << >> THEN last_activity ELSE touch
    /\ UNCHANGED <<mgr_vars, swp_vars, map_vars, tool_vars,
                   detached, unreachable, reported_stale>>

\* What the probe `element.is_enabled()` does on WebElement el: with the
\* browser out of reach the command fails with a WebDriverException of some
\* other class, on a detached element it raises
\* StaleElementReferenceException, otherwise it returns.
ProbeOutcome(el) ==
    IF unreachable THEN "WebDriverException"
    ELSE IF el \in detached THEN "StaleElementReferenceException"
    ELSE "returns"

\* (mutant) the session is touched before the lookup, so a miss counts as
\* activity
get_element_TouchFirst(id) ==
    /\ last_activity' = touch
    /\ IF id \notin DOMAIN element_map
       THEN /\ elem_ret' = Ret("ElementNotFoundError", {})
            /\ UNCHANGED <<element_map, reported_stale>>
       ELSE IF ProbeOutcome(element_map[id]) = "WebDriverException"
       THEN /\ elem_ret' = Ret("WebDriverException", {})
            /\ UNCHANGED <<element_map, reported_stale>>
       ELSE IF ProbeOutcome(element_map[id]) = "StaleElementReferenceException"
       THEN /\ element_map' = DelElement(id)
            /\ elem_ret' = Ret("ElementStaleError", {})
            /\ reported_stale' = reported_stale \cup {id}
       ELSE /\ elem_ret' = Ret("element", {element_map[id]})
            /\ UNCHANGED <<element_map, reported_stale>>
    /\ UNCHANGED <<mgr_vars, swp_vars, map_vars, tool_vars,
                   element_counter, detached, unreachable,
                   issued>>

\* get_element: absent -> ElementNotFoundError; the probe raises
\* StaleElementReferenceException -> the entry is deleted and
\* ElementStaleError raised; any other exception of the probe is not caught
\* and leaves the call; otherwise the element is returned.
get_element(id) ==
    /\ IF id \notin DOMAIN element_map
       THEN /\ elem_ret' = Ret("ElementNotFoundError", {})
            /\ UNCHANGED <<element_map, last_activity, reported_stale>>
       ELSE IF ProbeOutcome(element_map[id]) = "WebDriverException"
       THEN /\ elem_ret' = Ret("WebDriverException", {})
            /\ UNCHANGED <<element_map, last_activity, reported_stale>>
       ELSE IF ProbeOutcome(element_map[id]) = "StaleElementReferenceException"
       THEN /\ element_map' = DelElement(id)
            /\ elem_ret' = Ret("ElementStaleError", {})
            /\ reported_stale' = reported_stale \cup {id}
            /\ UNCHANGED last_activity
       ELSE /\ elem_ret' = Ret("element", {element_map[id]})
            /\ last_activity' = touch
            /\ UNCHANGED <<element_map, reported_stale>>
    /\ UNCHANGED <<mgr_vars, swp_vars, map_vars, tool_vars,
                   element_counter, detached, unreachable,
                   issued>>

remove_element(id) ==
    /\ IF id \in DOMAIN element_map
       THEN /\ element_map' = DelElement(id)
            /\ elem_ret' = Ret("True", {})
       ELSE /\ elem_ret' = Ret("False", {})
            /\ UNCHANGED element_map
    /\ UNCHANGED <<mgr_vars, swp_vars, map_vars, tool_vars,
                   element_counter, last_activity, detached,
                   unreachable, issued, reported_stale>>

clear_elements ==
    /\ elem_ret' = Ret("count", {Cardinality(DOMAIN element_map)})
    /\ element_map' = << >>
    /\ element_counter' = 0
    /\ UNCHANGED <<mgr_vars, swp_vars, map_vars, tool_vars,
                   last_activity, detached, unreachable,
                   issued, reported_stale>>

\* The page changes: a WebElement is detached from the DOM, for good.
Detach(el) ==
    /\ el \notin detached
    /\ detached' = detached \cup {el}
    /\ UNCHANGED <<mgr_vars, swp_vars, map_vars, tool_vars,
                   element_map, element_counter, last_activity,
                   unreachable, elem_ret, issued, reported_stale>>

\* The browser crashes or its Grid node drops the session: from now on every
\* command sent to it fails.
Disconnect ==
    /\ ~unreachable
    /\ unreachable' = TRUE
    /\ UNCHANGED <<mgr_vars, swp_vars, map_vars, tool_vars,
                   element_map, element_counter, last_activity,
                   detached, elem_ret, issued, reported_stale>>

\* Lists of at most two elements, for register_elements
RefLists == {<< >>} \cup {<<a>> : a \in Refs} \cup {<<a, b>> : a \in Refs, b \in Refs}

ElemNameable == ElemIds \cup {UnknownElem}

NextElem ==
    \/ \E el \in Refs : register_element(el)
    \/ \E els \in RefLists : register_elements(els)
    \/ \E id \in ElemNameable : get_element(id)
    \/ \E id \in ElemNameable : remove_element(id)
    \/ clear_elements
    \/ \E el \in Refs : Detach(el)
    \/ Disconnect
    \/ Tick

SpecElem == Init /\ [][NextElem]_vars

\* The calls made on a session's registry by callers that never clear it
NextNoClear ==
    \/ \E el \in Refs : register_element(el)
    \/ \E els \in RefLists : register_elements(els)
    \/ \E id \in ElemNameable : get_element(id)
    \/ \E id \in ElemNameable : remove_element(id)
    \/ \E el \in Refs : Detach(el)
    \/ Disconnect
    \/ Tick

SpecNoClear == Init /\ [][NextNoClear]_vars

\* ---- sweep passes under every policy, the scans observed -------------------
\* SessionManager(driver_factory, max_sessions, max_lifetime_seconds,
\* max_idle_seconds) with every policy the clock can tell apart
PolicyInit ==
    /\ max_sessions = MaxCapacity
    /\ max_lifetime_seconds \in 1..MaxTime
    /\ max_idle_seconds \in 1..MaxTime

InitSweep ==
    PolicyInit /\ RegistryInit /\ ElemInit /\ SwpInit /\ MapInit /\ ToolInit

\* sweep_expired; what the scan saw of each registered session (its idle
\* time and its age against the limits) is recorded.
SweepScan(t) ==
    /\ StartLoop(t, "sweep", Elems(get_expired_sessions))
    /\ scan_idle' = [scan_idle EXCEPT ![t] = @ \cup
          {id \in DOMAIN sessions :
              now - sessions[id].last_activity > max_idle_seconds}]
    /\ scan_old' = [scan_old EXCEPT ![t] = @ \cup
          {id \in DOMAIN sessions :
              now - sessions[id].created_at > max_lifetime_seconds}]
    /\ UNCHANGED <<shutdown_event, sweeper_pc, must_cancel, lifespan_pc,
                   rst_vars>>

\* get_expired_sessions called on its own: the list is returned
CallGetExpired(t) ==
    /\ pc[t] = "idle"
    /\ ret' = [ret EXCEPT ![t] = Ret("list", Elems(get_expired_sessions))]
    /\ UNCHANGED <<elem_vars, swp_vars, map_vars, tool_vars, cfg_vars, orphaned,
                   sessions, mgr_lock, sess_lock, next_uuid, now, pc, op, arg,
                   session, pending, count, quit_calls, stuck, true_returns,
                   seen_absent>>

NextSweep ==
    \/ \E t \in Tasks : CallCreate(t)
    \/ \E t \in Tasks : CreateEnter(t)
    \/ \E t \in Tasks : FactoryReturn(t)
    \/ \E t \in Tasks : \E id \in Nameable : get_session(t, id)
    \/ \E t \in Tasks : \E id \in Nameable : CallClose(t, id)
    \/ \E t \in Tasks : CloseEnter(t)
    \/ \E t \in Tasks : QuitReturn(t)
    \/ \E t \in Tasks : SweepScan(t)
    \/ \E t \in Tasks : CallGetExpired(t)
    \/ Tick

SpecSweep == InitSweep /\ [][NextSweep]_vars

\* ---- SessionSweeper and app_lifespan ---------------------------------------
Sweeper == 1           \* the task start() creates for _sweep_loop
Main == 2              \* the task of app_lifespan; while serving, a request handler

\* Requests are served between startup and shutdown
Serving(t) == t # Sweeper /\ lifespan_pc = "serving"

\* app_lifespan: `await sweeper.start()`.  The event is cleared and the task
\* created; the loop finds the event clear and rests in wait_for.
SweeperStart ==
    /\ lifespan_pc = "startup"
    /\ shutdown_event' = FALSE
    /\ sweeper_pc' = "wait"
    /\ lifespan_pc' = "serving"
    /\ UNCHANGED <<mgr_vars, elem_vars, map_vars, tool_vars,
                   must_cancel, scan_idle, scan_old, rst_vars>>

\* The interval elapses while the loop rests in wait_for: the timeout is
\* due, the task is scheduled to resume.
TimerFires ==
    /\ sweeper_pc = "wait"
    /\ pc[Sweeper] = "idle"
    /\ sweeper_pc' = "timeout"
    /\ UNCHANGED <<mgr_vars, elem_vars, map_vars, tool_vars, shutdown_event, must_cancel,
                   lifespan_pc, scan_idle, scan_old, rst_vars>>

\* The loop resumes with TimeoutError and calls sweep_expired; once the pass
\* is over the loop rests in wait_for again.
SweepPass ==
    /\ sweeper_pc = "timeout"
    /\ ~must_cancel
    /\ StartLoop(Sweeper, "sweep", Elems(get_expired_sessions))
    /\ sweeper_pc' = "wait"
    /\ UNCHANGED <<shutdown_event, must_cancel, lifespan_pc, scan_idle,
                   scan_old, rst_vars>>

\* (mutant) stop only sets the event
TaskCancel_Omitted == FALSE

\* stop: `self._task.cancel()` requests the cancellation of a task that is
\* not done
TaskCancel == sweeper_pc # "done"

\* app_lifespan at shutdown: `await sweeper.stop()` up to `await self._task`.
\* The event is set and the task cancelled in one step of the caller.
Stop ==
    /\ lifespan_pc = "serving"
    /\ pc[Main] = "idle"
    /\ shutdown_event' = TRUE
    /\ must_cancel' = TaskCancel
    /\ lifespan_pc' = "stopping"
    /\ UNCHANGED <<mgr_vars, elem_vars, map_vars, tool_vars,
                   sweeper_pc, scan_idle, scan_old, rst_vars>>

\* How a cancelled wait_for ends: CancelledError, or (the event being set) a
\* normal return after which `while not is_set()` ends the loop
WaitOutcomes == {"CancelledError", "returns"}

\* The cancellation reaches the sweep loop at the await where it rests: in
\* wait_for, or inside the pass at the registry lock or at driver.quit.
\* There CancelledError (no Exception) passes the handlers of close_session
\* and _sweep_loop, the `async with` blocks release the locks, and the task
\* is done.
CancelDelivered(o) ==
    /\ must_cancel
    /\ pc[Sweeper] # "idle" => o = "CancelledError"
    /\ must_cancel' = FALSE
    /\ sweeper_pc' = "done"
    /\ mgr_lock' = IF mgr_lock = Sweeper THEN NoTask ELSE mgr_lock
    /\ sess_lock' = [i \in SessionIds |->
                        IF sess_lock[i] = Sweeper THEN NoTask ELSE sess_lock[i]]
    /\ session' = [session EXCEPT ![Sweeper] = UnknownId]
    /\ Propagate(Sweeper, o)
    /\ UNCHANGED <<elem_vars, map_vars, tool_vars,
                   cfg_vars, orphaned, sessions, next_uuid, now, quit_calls,
                   stuck, true_returns, seen_absent, shutdown_event,
                   lifespan_pc, scan_idle, scan_old, rst_vars>>

\* (mutant) stop returns without awaiting the task
SweeperDone_NotAwaited == TRUE

\* stop: `await self._task` returns once the task is done
SweeperDone == sweeper_pc = "done"

\* stop has returned; app_lifespan calls close_all
ShutdownCloseAll ==
    /\ lifespan_pc = "stopping"
    /\ SweeperDone
    /\ StartLoop(Main, "close_all", DOMAIN sessions)
    /\ lifespan_pc' = "closing"
    /\ UNCHANGED <<shutdown_event, sweeper_pc, must_cancel, scan_idle,
                   scan_old, rst_vars>>

\* close_all has returned: "Shutdown complete"
ShutdownComplete ==
    /\ lifespan_pc = "closing"
    /\ pc[Main] = "idle"
    /\ lifespan_pc' = "down"
    /\ UNCHANGED <<mgr_vars, elem_vars, map_vars, tool_vars, shutdown_event, sweeper_pc,
                   must_cancel, scan_idle, scan_old, rst_vars>>

NextSweeper ==
    \/ SweeperStart
    \/ \E t \in Tasks : Serving(t) /\ CallCreate(t)
    \/ \E t \in Tasks : CreateEnter(t)
    \/ \E t \in Tasks : FactoryReturn(t)
    \/ \E t \in Tasks : \E id \in Nameable : Serving(t) /\ get_session(t, id)
    \/ \E t \in Tasks : \E id \in Nameable : Serving(t) /\ CallClose(t, id)
    \/ \E t \in Tasks : CloseEnter(t)
    \/ \E t \in Tasks : QuitReturn(t)
    \/ TimerFires
    \/ SweepPass
    \/ Stop
    \/ \E o \in WaitOutcomes : CancelDelivered(o)
    \/ ShutdownCloseAll
    \/ ShutdownComplete
    \/ Tick

SpecSweeper == Init /\ [][NextSweeper]_vars

\* (mutant) the pass is called without a handler around it
PassHandler_Absent(e) == FALSE

\* _sweep_loop: `except Exception as e: logger.error(...)` around the pass
PassHandler(e) == e = "Exception"

\* sweep_expired raises an Exception while the pass is between two closes
\* (whatever the cause); the handler of the loop logs it and the loop goes on
\* to the next wait_for, without a handler the exception ends the task.
PassFails ==
    /\ op[Sweeper] = "sweep"
    /\ pc[Sweeper] = "close_lock"
    /\ sweeper_pc' = IF PassHandler("Exception") THEN sweeper_pc ELSE "done"
    /\ Propagate(Sweeper, "Exception")
    /\ UNCHANGED <<elem_vars, map_vars, tool_vars, cfg_vars, orphaned,
                   sessions, mgr_lock, sess_lock, next_uuid, now, session,
                   quit_calls, stuck, true_returns, seen_absent,
                   shutdown_event, must_cancel, lifespan_pc, scan_idle,
                   scan_old, rst_vars>>

\* The server while it serves: the sweeper runs and shutdown is not signalled
NextServing ==
    \/ SweeperStart
    \/ \E t \in Tasks : Serving(t) /\ CallCreate(t)
    \/ \E t \in Tasks : CreateEnter(t)
    \/ \E t \in Tasks : FactoryReturn(t)
    \/ \E t \in Tasks : FactoryFail(t)
    \/ \E t \in Tasks : \E id \in Nameable : Serving(t) /\ get_session(t, id)
    \/ \E t \in Tasks : \E id \in Nameable : Serving(t) /\ CallClose(t, id)
    \/ \E t \in Tasks : CloseEnter(t)
    \/ \E t \in Tasks : QuitReturn(t)
    \/ TimerFires
    \/ SweepPass
    \/ PassFails
    \/ Tick

\* The event loop runs the tasks that are ready: the lifespan starts the
\* sweeper, the interval of wait_for elapses, the loop resumes on its
\* timeout, and the calls make progress.
SpecServing ==
    /\ Init
    /\ [][NextServing]_vars
    /\ WF_vars(SweeperStart)
    /\ WF_vars(TimerFires)
    /\ WF_vars(SweepPass)
    /\ \A t \in Tasks : Progress(t)

\* ---- what moves last_activity ------------------------------------------------
\* The calls that read or write last_activity while time passes.  The
\* sessions of the manager and the element registry of one session are
\* followed one at a time: the manager's calls with the registry untouched,
\* the registry's calls with no manager call made.
ManagerAtRest ==
    /\ next_uuid = 1
    /\ \A t \in Tasks : pc[t] = "idle" /\ ret[t] = NoRet

RegistryAtRest ==
    /\ element_counter = 0
    /\ detached = {}
    /\ elem_ret = NoRet

NextActivity ==
    \/ \E t \in Tasks : RegistryAtRest /\ CallCreate(t)
    \/ \E t \in Tasks : CreateEnter(t)
    \/ \E t \in Tasks : FactoryReturn(t)
    \/ \E t \in Tasks : \E id \in Nameable :
          RegistryAtRest /\ get_session(t, id)
    \/ \E t \in Tasks : RegistryAtRest /\ list_sessions(t)
    \/ \E t \in Tasks : RegistryAtRest /\ CallGetExpired(t)
    \/ \E el \in Refs : ManagerAtRest /\ register_element(el)
    \/ \E id \in ElemNameable : ManagerAtRest /\ get_element(id)
    \/ \E id \in ElemNameable : ManagerAtRest /\ remove_element(id)
    \/ ManagerAtRest /\ clear_elements
    \/ \E el \in Refs : ManagerAtRest /\ Detach(el)
    \/ Tick

SpecActivity == Init /\ [][NextActivity]_vars

\* ---- SessionSweeper started and stopped repeatedly --------------------------
\* Every loop of the sweeper is followed on its own: "new" (created, not yet
\* run), "wait" (in wait_for), "timeout" (the interval elapsed, resumption
\* due), "woken" (the event was set, resumption due), "pass" (inside
\* sweep_expired), "cancelled" (cancel() requested, not yet delivered), "done".
\* start() and stop() are called one after the other by one caller.
RstFrame ==
    UNCHANGED <<mgr_vars, elem_vars, map_vars, tool_vars, sweeper_pc,
                must_cancel, lifespan_pc, scan_idle, scan_old>>

Running == {l \in LoopIds : loops[l] \notin {"none", "done"}}

\* start: the event is cleared, a task is created and stored in self._task,
\* whatever self._task held.
start ==
    /\ last_call # "stopping"
    /\ \E l \in LoopIds :
          /\ loops[l] = "none"
          /\ \A k \in LoopIds : k < l => loops[k] # "none"
          /\ loops' = [loops EXCEPT ![l] = "new"]
          /\ task' = l
    /\ shutdown_event' = FALSE
    /\ last_call' = IF last_call = "stopped" THEN "restarted" ELSE "started"
    /\ RstFrame

\* stop up to `await self._task`: with a task stored, the event is set and
\* that task cancelled (cancel() of a task that is done does nothing);
\* without one stop returns at once.
stop ==
    /\ last_call # "stopping"
    /\ IF task = NoLoop
       THEN /\ last_call' = "stopped"
            /\ UNCHANGED <<shutdown_event, loops>>
       ELSE /\ shutdown_event' = TRUE
            /\ loops' = [loops EXCEPT ![task] =
                            IF @ = "done" THEN "done" ELSE "cancelled"]
            /\ last_call' = "stopping"
    /\ UNCHANGED task
    /\ RstFrame

\* stop: `await self._task` ends once that task is done
StopReturns ==
    /\ last_call = "stopping"
    /\ loops[task] = "done"
    /\ last_call' = "stopped"
    /\ UNCHANGED <<shutdown_event, loops, task>>
    /\ RstFrame

\* `while not self._shutdown_event.is_set()`: the loop ends or enters wait_for
LoopTest(l) == IF shutdown_event THEN "done" ELSE "wait"

LoopStep(l, from, to) ==
    /\ loops[l] = from
    /\ loops' = [loops EXCEPT ![l] = to]
    /\ UNCHANGED <<shutdown_event, task, last_call>>
    /\ RstFrame

\* A created task runs for the first time
LoopRuns(l) == LoopStep(l, "new", LoopTest(l))

\* The interval elapses while the loop rests in wait_for
IntervalElapses(l) == LoopStep(l, "wait", "timeout")

\* The event is set while the loop rests in wait_for: the wait is over
EventWakes(l) == shutdown_event /\ LoopStep(l, "wait", "woken")

\* wait_for has returned; the loop tests the event again
LoopResumes(l) == LoopStep(l, "woken", LoopTest(l))

\* The loop resumes with TimeoutError and calls sweep_expired
PassBegins(l) == LoopStep(l, "timeout", "pass")

\* sweep_expired returns or raises; the loop tests the event again
PassEnds(l) == LoopStep(l, "pass", LoopTest(l))

\* CancelledError is raised in the loop at the await where it rests
LoopCancelled(l) == LoopStep(l, "cancelled", "done")

NextRestart ==
    \/ start
    \/ stop
    \/ StopReturns
    \/ \E l \in LoopIds : LoopRuns(l)
    \/ \E l \in LoopIds : IntervalElapses(l)
    \/ \E l \in LoopIds : EventWakes(l)
    \/ \E l \in LoopIds : LoopResumes(l)
    \/ \E l \in LoopIds : PassBegins(l)
    \/ \E l \in LoopIds : PassEnds(l)
    \/ \E l \in LoopIds : LoopCancelled(l)

SpecRestart == Init /\ [][NextRestart]_vars

\* ==== Claims ================================================================

\* ---- utils/error_mapper.py: map_selenium_error -------------------------------
\* EXCEPTION_MAP, in the order of the dict literal: <<class, ErrorCode>>
EXCEPTION_MAP ==
    << <<"NoSuchElementException", "ELEMENT_NOT_FOUND">>,
       <<"StaleElementReferenceException", "ELEMENT_STALE">>,
       <<"ElementNotInteractableException", "ELEMENT_NOT_INTERACTABLE">>,
       <<"ElementNotVisibleException", "ELEMENT_NOT_VISIBLE">>,
       <<"ElementNotSelectableException", "ELEMENT_NOT_SELECTABLE">>,
       <<"InvalidSelectorException", "INVALID_SELECTOR">>,
       <<"TimeoutException", "TIMEOUT">>,
       <<"NoSuchWindowException", "WINDOW_NOT_FOUND">>,
       <<"NoSuchFrameException", "FRAME_NOT_FOUND">>,
       <<"NoAlertPresentException", "ALERT_NOT_PRESENT">>,
       <<"UnexpectedAlertPresentException", "UNEXPECTED_ALERT">>,
       <<"JavascriptException", "JAVASCRIPT_ERROR">>,
       <<"InvalidArgumentException", "INVALID_ARGUMENT">>,
       <<"SessionNotCreatedException", "SESSION_CREATION_FAILED">>,
       <<"InsecureCertificateException", "INSECURE_CERTIFICATE">>,
       <<"InvalidCookieDomainException", "INVALID_COOKIE_DOMAIN">>,
       <<"MoveTargetOutOfBoundsException", "INVALID_ARGUMENT">>,
       <<"InvalidElementStateException", "ELEMENT_NOT_INTERACTABLE">>,
       <<"NoSuchCookieException", "COOKIE_NOT_FOUND">>,
       <<"SessionNotFoundError", "SESSION_NOT_FOUND">>,
       <<"SessionLimitError", "SESSION_LIMIT_REACHED">>,
       <<"ElementNotFoundError", "ELEMENT_NOT_FOUND">>,
       <<"ElementStaleError", "ELEMENT_STALE">>,
       <<"DomainNotAllowedError", "DOMAIN_NOT_ALLOWED">>,
       <<"WaitTimeoutError", "TIMEOUT">>,
       <<"ScriptExecutionError", "JAVASCRIPT_ERROR">>,
       <<"GridConnectionError", "GRID_UNAVAILABLE">> >>

MappedClasses == {EXCEPTION_MAP[i][1] : i \in 1..Len(EXCEPTION_MAP)}

\* The domain exceptions of core/exceptions.py, all derived from
\* SeleniumMCPError
DomainErrors ==
    {"SessionNotFoundError", "SessionLimitError", "ElementNotFoundError",
     "ElementStaleError", "DomainNotAllowedError", "WaitTimeoutError",
     "ScriptExecutionError", "GridConnectionError"}

\* Exception classes that are no key of EXCEPTION_MAP: the bases, two
\* Selenium exceptions and a builtin one
UnmappedClasses ==
    {"Exception", "SeleniumMCPError", "WebDriverException",
     "InvalidSessionIdException", "ElementClickInterceptedException",
     "RuntimeError"}

Classes == MappedClasses \cup UnmappedClasses

\* The direct base class of a class
Base(c) ==
    IF c \in DomainErrors THEN "SeleniumMCPError"
    ELSE IF c \in {"SeleniumMCPError", "WebDriverException", "RuntimeError"}
    THEN "Exception"
    ELSE IF c \in {"ElementNotInteractableException",
                   "ElementNotVisibleException",
                   "ElementNotSelectableException"}
    THEN "InvalidElementStateException"
    ELSE "WebDriverException"

\* The class and its base classes up to Exception
RECURSIVE Mro(_)
Mro(c) == IF c = "Exception" THEN {c} ELSE {c} \cup Mro(Base(c))

\* The phrases map_selenium_error looks for in str(exc).lower(); a message
\* is told apart by which of them it contains once lower-cased
Phrases == {"connection refused", "session", "not found", "deleted"}

\* An exception: its class (cls itself, or with sub a class derived from cls
\* that is no key of the map) and its message
Exceptions == [cls : Classes, sub : BOOLEAN, msg : SUBSET Phrases]

\* isinstance(exc, k)
IsInstance(e, k) == k \in Mro(e.cls)

\* `exc_type in EXCEPTION_MAP`: the exact type is a key
ExactType(e) == ~e.sub /\ e.cls \in MappedClasses

\* EXCEPTION_MAP[k]
CodeOf(k) ==
    LET i == CHOOSE j \in 1..Len(EXCEPTION_MAP) : EXCEPTION_MAP[j][1] = k
    IN  EXCEPTION_MAP[i][2]

\* `for exc_class, code in EXCEPTION_MAP.items(): if isinstance(...)`: the
\* indexes of the entries whose class the exception is an instance of
ParentEntries(e) ==
    {i \in 1..Len(EXCEPTION_MAP) : IsInstance(e, EXCEPTION_MAP[i][1])}

\* The WebDriverException branch: the code read off the message
MessageCode(e) ==
    IF "connection refused" \in e.msg THEN "CONNECTION_REFUSED"
    ELSE IF "session" \in e.msg /\ ("not found" \in e.msg \/ "deleted" \in e.msg)
    THEN "SESSION_TERMINATED"
    ELSE "UNKNOWN_ERROR"

\* (mutant) the message is examined first, for every exception
map_selenium_error_MessageFirst(e) ==
    [code |-> IF MessageCode(e) # "UNKNOWN_ERROR" THEN MessageCode(e)
              ELSE IF ExactType(e) THEN CodeOf(e.cls)
              ELSE IF ParentEntries(e) # {}
              THEN EXCEPTION_MAP[Min(ParentEntries(e))][2]
              ELSE "UNKNOWN_ERROR",
     message |-> e.msg]

\* map_selenium_error(exc): (ErrorCode, str(exc))
map_selenium_error(e) ==
    [code |-> IF ExactType(e) THEN CodeOf(e.cls)
              ELSE IF ParentEntries(e) # {}
              THEN EXCEPTION_MAP[Min(ParentEntries(e))][2]
              ELSE IF IsInstance(e, "WebDriverException") THEN MessageCode(e)
              ELSE "UNKNOWN_ERROR",
     message |-> e.msg]

\* A tool catches exception e
Raise(e) ==
    /\ exc' = e
    /\ mapped' = [code |-> "none", message |-> {}]
    /\ UNCHANGED <<mgr_vars, elem_vars, swp_vars, tool_vars>>

\* and maps it: `code, message = map_selenium_error(e)`
MapError ==
    /\ exc # NoExc
    /\ mapped' = map_selenium_error(exc)
    /\ UNCHANGED <<mgr_vars, elem_vars, swp_vars, tool_vars, exc>>

InitMap ==
    /\ MgrInit /\ ElemInit /\ SwpInit /\ ToolInit
    /\ exc \in Exceptions
    /\ mapped = [code |-> "none", message |-> {}]

NextMap ==
    \/ \E e \in Exceptions : Raise(e)
    \/ MapError

SpecMap == InitMap /\ [][NextMap]_vars

\* ---- tool calls on the sessions of the manager ------------------------------
\* The browser types create_session is called with, and the filters
\* list_sessions is called with ("" for no filter)
Browsers == {"chrome", "Chrome", "firefox"}
Filters == {"", "chrome", "CHROME", "firefox", "edge"}

\* str.lower() on these strings
Lower(b) == IF b \in {"Chrome", "CHROME"} THEN "chrome" ELSE b

\* BrowserSession.element_count of the session object created under id
element_count(id) == Cardinality(DOMAIN registry[id].map)

\* BrowserSession.to_dict, without the fields that are constant
to_dict(id) ==
    [session_id |-> id,
     browser |-> browser[id],
     created_at |-> sessions[id].created_at,
     last_activity |-> sessions[id].last_activity,
     element_count |-> element_count(id)]

\* list_sessions: `if browser: sessions = [s for s in sessions if
\* s.browser.lower() == browser.lower()]`
Matches(id, f) == f = "" \/ Lower(browser[id]) = Lower(f)

\* [s.to_dict() for s in sessions] over the ids not yet visited, in
\* registry order
RECURSIVE Summaries(_, _)
Summaries(ids, f) ==
    IF ids = {}
    THEN << >>
    ELSE LET id == Min(ids)
         IN  (IF Matches(id, f) THEN <<to_dict(id)>> ELSE << >>)
                \o Summaries(ids \ {id}, f)

\* list_sessions(browser=f).  to_dict reads driver.current_url, a command
\* sent to the browser: with the browser of a listed session out of reach
\* its exception leaves list_sessions.
ListSessions(t, f) ==
    /\ pc[t] = "idle"
    /\ listed' =
          IF \E id \in DOMAIN sessions :
                Matches(id, f) /\ sessions[id].driver \in crashed
          THEN Ret("WebDriverException", << >>)
          ELSE Ret("list", Summaries(DOMAIN sessions, f))
    /\ UNCHANGED <<mgr_vars, elem_vars, swp_vars, map_vars,
                   registry, browser, target, found, results, crashed>>

\* The browser behind driver d crashes, or the Grid drops it.
Crash(d) ==
    /\ d \in {sessions[id].driver : id \in DOMAIN sessions} \ crashed
    /\ crashed' = crashed \cup {d}
    /\ UNCHANGED <<mgr_vars, elem_vars, swp_vars, map_vars,
                   registry, browser, target, found, results, listed>>

\* session.register_element(el) made by task t on the session object it
\* holds: one synchronous call, so one step of the event loop.  The touch
\* is seen in the registry while the session is registered.
Register(t, el) ==
    LET s == target[t]
        one == RegisterOne(registry[s].map, registry[s].counter, el)
    IN  /\ registry' = [registry EXCEPT ![s] =
                           [map |-> one.map, counter |-> one.counter]]
        /\ results' = [results EXCEPT ![t] = Append(@, one.id)]
        /\ sessions' = IF s \in DOMAIN sessions THEN TouchSession(s)
                       ELSE sessions

\* The tool call of task t ends: with the ids it registered, or with the
\* error it maps.
QueryEnds(t, r) ==
    /\ pc' = [pc EXCEPT ![t] = "idle"]
    /\ op' = [op EXCEPT ![t] = "none"]
    /\ ret' = [ret EXCEPT ![t] = r]
    /\ target' = [target EXCEPT ![t] = UnknownId]
    /\ found' = [found EXCEPT ![t] = << >>]
    /\ results' = [results EXCEPT ![t] = << >>]

\* query_elements: get_session, then the task suspends in
\* `await anyio.to_thread.run_sync(find_elements)`.
query_elements(t, id) ==
    /\ pc[t] = "idle"
    /\ IF id \in DOMAIN sessions
       THEN /\ sessions' = TouchSession(id)
            /\ target' = [target EXCEPT ![t] = id]
            /\ pc' = [pc EXCEPT ![t] = "query_find"]
            /\ op' = [op EXCEPT ![t] = "query"]
            /\ ret' = [ret EXCEPT ![t] = NoRet]
       ELSE /\ ret' = [ret EXCEPT ![t] = Ret("SessionNotFoundError", {})]
            /\ UNCHANGED <<sessions, target, pc, op>>
    /\ UNCHANGED <<elem_vars, swp_vars, map_vars, cfg_vars, orphaned,
                   mgr_lock, sess_lock, next_uuid, now, arg, session, pending,
                   count, quit_calls, stuck, true_returns, seen_absent,
                   registry, browser, found, results, crashed, listed>>

\* What a command sent to the browser of a session does
CommandOutcomes == {"returns", "WebDriverException"}

\* What find_elements can return: no element, one, or two
FoundLists == {<< >>, <<1>>, <<1, 2>>}

\* The registrations made on session s and those the calls in progress on
\* it have still to make
RECURSIVE Awaited(_, _)
Awaited(ts, s) ==
    IF ts = {}
    THEN 0
    ELSE LET t == Min(ts)
         IN  (IF target[t] = s THEN Len(found[t]) ELSE 0) + Awaited(ts \ {t}, s)

Reserved(s) == registry[s].counter + Awaited(Tasks, s)

\* find_elements completes.  With elements found the loop registers the
\* first one and suspends in the awaits that serialize it.
FindReturns(t, els, o) ==
    /\ pc[t] = "query_find"
    /\ Reserved(target[t]) + Len(els) <= MaxRegistrations
    /\ IF o # "returns"
       THEN /\ QueryEnds(t, Ret(o, {}))
            /\ UNCHANGED <<registry, sessions>>
       ELSE IF els = << >>
       THEN /\ QueryEnds(t, Ret("ids", {}))
            /\ UNCHANGED <<registry, sessions>>
       ELSE /\ Register(t, Head(els))
            /\ found' = [found EXCEPT ![t] = Tail(els)]
            /\ pc' = [pc EXCEPT ![t] = "query_serialize"]
            /\ UNCHANGED <<op, ret, target>>
    /\ UNCHANGED <<elem_vars, swp_vars, map_vars, cfg_vars, orphaned,
                   mgr_lock, sess_lock, next_uuid, now, arg, session, pending,
                   count, quit_calls, stuck, true_returns, seen_absent,
                   browser, crashed, listed>>

\* serialize_element and is_clickable complete for the element registered
\* last: the loop registers the next element, or the call returns.
SerializeReturns(t, o) ==
    /\ pc[t] = "query_serialize"
    /\ IF o # "returns"
       THEN /\ QueryEnds(t, Ret(o, {}))
            /\ UNCHANGED <<registry, sessions>>
       ELSE IF found[t] = << >>
       THEN /\ QueryEnds(t, Ret("ids", Elems(results[t])))
            /\ UNCHANGED <<registry, sessions>>
       ELSE /\ Register(t, Head(found[t]))
            /\ found' = [found EXCEPT ![t] = Tail(found[t])]
            /\ UNCHANGED <<pc, op, ret, target>>
    /\ UNCHANGED <<elem_vars, swp_vars, map_vars, cfg_vars, orphaned,
                   mgr_lock, sess_lock, next_uuid, now, arg, session, pending,
                   count, quit_calls, stuck, true_returns, seen_absent,
                   browser, crashed, listed>>

NextTools ==
    \/ \E t \in Tasks : CallCreate(t)
    \/ \E t \in Tasks : CreateEnter(t)
    \/ \E t \in Tasks : FactoryReturn(t)
    \/ \E t \in Tasks : \E id \in Nameable : CallClose(t, id)
    \/ \E t \in Tasks : CloseEnter(t)
    \/ \E t \in Tasks : QuitReturn(t)
    \/ \E t \in Tasks : \E id \in Nameable : query_elements(t, id)
    \/ \E t \in Tasks : \E els \in FoundLists : \E o \in CommandOutcomes :
          FindReturns(t, els, o)
    \/ \E t \in Tasks : \E o \in CommandOutcomes : SerializeReturns(t, o)

\* A manager with room for MaxCapacity sessions
InitTools ==
    /\ max_sessions = MaxCapacity
    /\ max_idle_seconds = 1
    /\ max_lifetime_seconds = 2
    /\ RegistryInit /\ ElemInit /\ SwpInit /\ MapInit /\ ToolInit

SpecTools == InitTools /\ [][NextTools]_vars

\* ---- list_sessions over sessions of every browser type -----------------------
\* Each session is created with one of the browser types
InitList ==
    /\ max_sessions = MaxCapacity
    /\ max_idle_seconds = 1
    /\ max_lifetime_seconds = 2
    /\ RegistryInit /\ ElemInit /\ SwpInit /\ MapInit /\ CallsInit
    /\ browser \in [SessionIds -> Browsers]

\* One client creates, uses and closes the sessions while another lists
\* them; each session gets at most MaxListed elements, one per query.
Drivers == {1}
Listers == {2}

NextList ==
    \/ \E t \in Drivers : CallCreate(t)
    \/ \E t \in Drivers : CreateEnter(t)
    \/ \E t \in Drivers : FactoryReturn(t)
    \/ \E t \in Drivers : \E id \in Nameable : CallClose(t, id)
    \/ \E t \in Drivers : CloseEnter(t)
    \/ \E t \in Drivers : QuitReturn(t)
    \/ \E t \in Drivers : \E id \in Nameable : query_elements(t, id)
    \/ \E t \in Drivers : \E els \in {<< >>, <<1>>} :
          /\ pc[t] = "query_find"
          /\ registry[target[t]].counter + Len(els) <= MaxListed
          /\ FindReturns(t, els, "returns")
    \/ \E t \in Drivers : SerializeReturns(t, "returns")
    \/ \E t \in Listers : \E f \in Filters : ListSessions(t, f)
    \/ \E d \in SessionIds : Crash(d)

SpecList == InitList /\ [][NextList]_vars

\* C1: under every interleaving of create_session, close_session,
\* sweep_expired and close_all the registry never holds more than
\* max_sessions sessions.
C1_CapacityBound == session_count <= max_sessions

\* One slot is left and two creators race for it: one is inside the factory
\* call, the other waits for the lock.
C1_Witness ==
    /\ session_count + 1 = max_sessions
    /\ \E t, u \in Tasks : pc[t] = "create_factory" /\ pc[u] = "create_lock"

\* C2: a session's driver is quit at most once; at most one close_session
\* call returns True for it, and exactly one once no teardown of it is in
\* progress, so every other remover got False; close_session on an id that
\* is not registered returns False and invokes no teardown.
C2_State ==
    /\ \A d \in SessionIds : quit_calls[d] <= 1
    /\ \A id \in SessionIds : true_returns[id] <= 1
    /\ \A id \in Issued \ DOMAIN sessions :
          (\A t \in Tasks : ~(pc[t] = "close_quit" /\ arg[t] = id))
             => true_returns[id] = 1

C2_Absent(t) ==
    (CloseEnter(t) /\ arg[t] \notin DOMAIN sessions)
       => /\ quit_calls' = quit_calls
          /\ true_returns' = true_returns
          /\ op[t] = "close" => ret'[t] = Ret("False", {})
          /\ op[t] # "close" =>
                \/ pc'[t] = "close_lock" /\ count'[t] = count[t]
                \/ ret'[t] = Ret("count", {count[t]})

C2_SingleTeardown == [](C2_State) /\ [][\A t \in Tasks : C2_Absent(t)]_vars

\* Two removers of different kinds target the same session: one is tearing
\* it down, the other (a sweep or close_all loop) still waits for the lock.
C2_Witness ==
    \E t, u \in Tasks :
        /\ pc[t] = "close_quit" /\ op[t] = "close"
        /\ pc[u] = "close_lock" /\ op[u] \in {"sweep", "close_all"}
        /\ arg[u] = arg[t]

\* C3: every session in the registry has a driver on which quit has not
\* been started.
C3_RegisteredDriversLive ==
    \A id \in DOMAIN sessions : quit_calls[sessions[id].driver] = 0

\* A teardown is in progress while another session is registered.
C3_Witness ==
    /\ \E t \in Tasks : pc[t] = "close_quit" /\ quit_calls[session[t]] = 1
    /\ DOMAIN sessions # {}

\* C4: once a lookup (get_session or list_sessions) has found a removed
\* session absent, no later lookup finds it present.
C4_Lookup(t) ==
    /\ \A id \in Nameable :
          (get_session(t, id) /\ ret'[t].kind = "session") => id \notin seen_absent
    /\ list_sessions(t) => ret'[t].val \cap seen_absent = {}

C4_RemovalAtomic == [][\A t \in Tasks : C4_Lookup(t)]_vars

\* A removed session has been seen absent while its teardown is still in
\* progress and another session is registered.
C4_Witness ==
    \E t \in Tasks :
        /\ pc[t] = "close_quit"
        /\ arg[t] \in seen_absent
        /\ DOMAIN sessions # {}

\* C7: create_session raises SessionLimitError exactly when the registry
\* holds max_sessions sessions at its capacity check; then the factory is
\* not called and the registry is unchanged; otherwise (e.g. after a
\* removal) it goes on to the factory call, and when that returns the new
\* session is registered and returned.
C7_Check(t) ==
    /\ CreateEnter(t) =>
          /\ (ret'[t].kind = "SessionLimitError") <=> (session_count = max_sessions)
          /\ session_count = max_sessions =>
                /\ pc'[t] = "idle"
                /\ sessions' = sessions
                /\ mgr_lock' = NoTask
          /\ session_count < max_sessions => pc'[t] = "create_factory"
    /\ FactoryReturn(t) =>
          /\ ret'[t].kind = "session"
          /\ ret'[t].val \subseteq DOMAIN sessions'
          /\ session_count' = session_count + 1

C7_LimitExactlyWhenFull == [][\A t \in Tasks : C7_Check(t)]_vars

\* With max_sessions = 1: a creator was refused, and after the first
\* session was removed a second one has been created.
C7_Witness ==
    /\ max_sessions = 1
    /\ DOMAIN sessions = {2}
    /\ \E t \in Tasks : ret[t].kind = "SessionLimitError"

\* C8: while a factory call is in progress and until it succeeds, the
\* registry keeps its members; when it fails the error reaches the caller
\* and the registry lock is free again, so a waiting creator can enter.
C8_Step(t) ==
    /\ (pc[t] = "create_factory" /\ ~FactoryReturn(t))
          => DOMAIN sessions' = DOMAIN sessions
    /\ FactoryFail(t) =>
          /\ ret'[t].kind \in FactoryErrors
          /\ pc'[t] = "idle"
          /\ mgr_lock' = NoTask
          /\ \A u \in Tasks : pc'[u] = "create_lock" => LockFree'

C8_FactoryFailure == [][\A t \in Tasks : C8_Step(t)]_vars

\* After a failed factory call another creator is inside the factory call.
C8_Witness ==
    \E t, u \in Tasks :
        /\ ret[t].kind \in FactoryErrors
        /\ pc[u] = "create_factory"

\* C9: when quit raises, no exception reaches the caller: close_session
\* returns True (the loops of sweep_expired and close_all count it and go
\* on), the session is absent and the registry is below capacity.
C9_Step(t) ==
    QuitStep(t, "Exception") =>
       /\ true_returns'[arg[t]] = true_returns[arg[t]] + 1
       /\ op[t] = "close" => ret'[t] = Ret("True", {})
       /\ op[t] # "close" =>
             \/ pc'[t] = "close_lock" /\ count'[t] = count[t] + 1
             \/ ret'[t] = Ret("count", {count[t] + 1})
       /\ arg[t] \notin DOMAIN sessions'
       /\ session_count' < max_sessions
       /\ mgr_lock' = NoTask

C9_TeardownFailureSwallowed == [][\A t \in Tasks : C9_Step(t)]_vars

\* quit has raised for a session, its close_session returned True, and a
\* new session has taken the slot.
C9_Witness ==
    \E t \in Tasks :
        /\ ret[t] = Ret("True", {})
        /\ 1 \in stuck
        /\ true_returns[1] = 1
        /\ max_sessions = 1
        /\ DOMAIN sessions = {2}

\* C10: a create_session call issued while a teardown is in progress can
\* enter its exclusive section (and so complete) without waiting for the
\* teardown to finish.
C10_SlotFreeDuringTeardown ==
    \A t, u \in Tasks :
        (pc[t] = "close_quit" /\ pc[u] = "create_lock") => ENABLED CreateEnter(u)

\* C5: register_element never returns an id it has returned before in the
\* session's lifetime, also across clear_elements.
C5_IdsNeverReissued ==
    \A i, j \in 1..Len(issued) : i # j => issued[i] # issued[j]

\* C6: the first get_element on an entry whose element is detached raises
\* ElementStaleError and removes the entry; every later get_element with that
\* id raises ElementNotFoundError, whatever happens in between.
C6_Step(id) ==
    get_element(id) =>
       /\ (id \in DOMAIN element_map /\ element_map[id] \in detached
             /\ ~unreachable) =>
             /\ elem_ret' = Ret("ElementStaleError", {})
             /\ id \notin DOMAIN element_map'
       /\ id \in reported_stale => elem_ret' = Ret("ElementNotFoundError", {})

C6_StaleOnceThenNotFound == [][\A id \in ElemNameable : C6_Step(id)]_vars

\* C11: the session create_session returned stays registered under its id,
\* as the same object (same driver, same creation time), in every step that
\* is not its removal by close_session (called directly, by sweep_expired or
\* by close_all); while it is registered get_session with its id returns it.
C11_Created(t) ==
    FactoryReturn(t) =>
       /\ ret'[t] = Ret("session", {next_uuid})
       /\ next_uuid \notin DOMAIN sessions
       /\ next_uuid \in DOMAIN sessions'
       /\ sessions'[next_uuid].driver = next_uuid

C11_Kept(id) ==
    \/ /\ id \in DOMAIN sessions'
       /\ sessions'[id].driver = sessions[id].driver
       /\ sessions'[id].created_at = sessions[id].created_at
    \/ \E t \in Tasks :
          /\ CloseEnter(t)
          /\ arg[t] = id
          /\ op[t] \in {"close", "sweep", "close_all"}

C11_Got(t, id) ==
    get_session(t, id) =>
       /\ ret'[t] = Ret("session", {id})
       /\ sessions'[id].driver = id

C11_GetReturnsCreated ==
    [][/\ \A t \in Tasks : C11_Created(t)
       /\ \A id \in DOMAIN sessions : C11_Kept(id)
       /\ \A t \in Tasks : \A id \in DOMAIN sessions : C11_Got(t, id)]_vars

\* The second session was created, another session has been removed since,
\* and a later get_session returned the second one.
C11_Witness ==
    \E t \in Tasks :
        /\ ret[t] = Ret("session", {2})
        /\ DOMAIN sessions = {2}
        /\ sessions[2].driver = 2
        /\ sessions[2].last_activity > sessions[2].created_at

\* C12: get_session on a registered id sets that session's last_activity to
\* the current time and changes nothing else; on an id that is not
\* registered it raises SessionNotFoundError and changes nothing.
C12_Step(t, id) ==
    get_session(t, id) =>
       /\ UNCHANGED <<elem_vars, swp_vars, cfg_vars, mgr_lock, sess_lock,
                      next_uuid, now, pc, op, arg, session, pending, count,
                      quit_calls, stuck, true_returns>>
       /\ \A u \in Tasks \ {t} : ret'[u] = ret[u]
       /\ DOMAIN sessions' = DOMAIN sessions
       /\ IF id \in DOMAIN sessions
          THEN /\ ret'[t] = Ret("session", {id})
               /\ sessions'[id].last_activity = now
               /\ sessions'[id].created_at = sessions[id].created_at
               /\ sessions'[id].driver = sessions[id].driver
               /\ \A o \in DOMAIN sessions \ {id} : sessions'[o] = sessions[o]
          ELSE /\ ret'[t] = Ret("SessionNotFoundError", {})
               /\ sessions' = sessions

C12_GetSessionFrame ==
    [][\A t \in Tasks : \A id \in Nameable : C12_Step(t, id)]_vars

\* One lookup touched a registered session some time after its creation
\* (the other registered session keeps its timestamps), another lookup
\* raised SessionNotFoundError.
C12_Witness ==
    \E t, u \in Tasks : \E id, o \in DOMAIN sessions :
        /\ ret[t] = Ret("session", {id})
        /\ ret[u] = Ret("SessionNotFoundError", {})
        /\ sessions[id].last_activity = now
        /\ sessions[id].created_at < now
        /\ o # id
        /\ sessions[o].last_activity < now

\* C13: a session whose idle time exceeds max_idle_seconds at the scan of a
\* sweep pass is registered afterwards only while that pass still has it to
\* close; so it is absent when the pass returns, and get_session with its id
\* raises SessionNotFoundError from then on.
C13_State ==
    \A t \in Tasks : \A id \in scan_idle[t] :
        id \in DOMAIN sessions => (op[t] = "sweep" /\ id \in pending[t])

C13_Lookup(u, id) ==
    (get_session(u, id) /\ \E t \in Tasks : id \in scan_idle[t] \ pending[t])
       => ret'[u] = Ret("SessionNotFoundError", {})

C13_IdleEvicted ==
    /\ [](C13_State)
    /\ [][\A u \in Tasks : \A id \in Nameable : C13_Lookup(u, id)]_vars

\* A pass that saw an idle session has returned having removed it, and a
\* later get_session was refused.
C13_Witness ==
    \E t, u \in Tasks :
        /\ 1 \in scan_idle[t] \ scan_old[t]
        /\ ret[t] = Ret("count", {1})
        /\ op[t] = "none"
        /\ ret[u] = Ret("SessionNotFoundError", {})
        /\ 1 \in seen_absent

\* C14: the sweeper removes a session only if a scan of its pass saw it over
\* a limit: a session within both limits at every scan is never removed by
\* a sweep pass.
C14_Step(t) ==
    (CloseEnter(t) /\ op[t] = "sweep" /\ arg[t] \in DOMAIN sessions)
       => arg[t] \in scan_idle[t] \cup scan_old[t]

C14_ActiveSessionsKept == [][\A t \in Tasks : C14_Step(t)]_vars

\* A pass has removed one session and returned; a session registered since
\* time 0 that no scan saw over a limit is still there.
C14_Witness ==
    \E t \in Tasks :
        /\ ret[t] = Ret("count", {1})
        /\ 1 \in scan_idle[t] \cup scan_old[t]
        /\ 2 \in DOMAIN sessions
        /\ sessions[2].created_at = 0
        /\ \A u \in Tasks : 2 \notin scan_idle[u] \cup scan_old[u]

\* C15: get_expired_sessions returns exactly the registered ids with
\* age > max_lifetime_seconds or idle > max_idle_seconds, each once, and
\* changes neither the registry nor a session.
C15_Selected ==
    {id \in DOMAIN sessions :
        \/ now - sessions[id].created_at > max_lifetime_seconds
        \/ now - sessions[id].last_activity > max_idle_seconds}

C15_State ==
    LET l == get_expired_sessions
    IN  /\ Elems(l) = C15_Selected
        /\ \A i, j \in 1..Len(l) : i # j => l[i] # l[j]

C15_Call(t) ==
    CallGetExpired(t) =>
       /\ ret'[t] = Ret("list", C15_Selected)
       /\ sessions' = sessions
       /\ UNCHANGED <<elem_vars, swp_vars, cfg_vars, mgr_lock, sess_lock,
                      next_uuid, now, pc, op, arg, session, pending, count,
                      quit_calls, stuck, true_returns, seen_absent>>

C15_ExpiredExact == [](C15_State) /\ [][\A t \in Tasks : C15_Call(t)]_vars

\* The returned list holds a session over the lifetime limit alone (it was
\* touched within the idle limit) and leaves out a registered session.
C15_Witness ==
    \E t \in Tasks : \E id, o \in DOMAIN sessions :
        /\ ret[t] = Ret("list", {id})
        /\ now - sessions[id].created_at > max_lifetime_seconds
        /\ now - sessions[id].last_activity <= max_idle_seconds
        /\ o # id
        /\ ~IsExpired(o)

\* C17: when quit raises for one session of a sweep pass, the pass goes on
\* with the sessions it still has to close; once a pass is over, no session
\* its scan selected is registered.
C17_Step(t) ==
    (QuitStep(t, "Exception") /\ op[t] = "sweep") =>
       LET rest == pending[t] \ {arg[t]}
       IN  IF rest # {}
           THEN /\ op'[t] = "sweep"
                /\ pc'[t] = "close_lock"
                /\ pending'[t] = rest
                /\ arg'[t] \in rest
                /\ count'[t] = count[t] + 1
           ELSE ret'[t] = Ret("count", {count[t] + 1})

C17_State ==
    \A t \in Tasks :
        op[t] # "sweep" =>
           (scan_idle[t] \cup scan_old[t]) \cap DOMAIN sessions = {}

C17_SweepIsolatesFailures ==
    [](C17_State) /\ [][\A t \in Tasks : C17_Step(t)]_vars

\* A pass selected two sessions, quit raised for the first one, and the
\* pass returned having removed both.
C17_Witness ==
    \E t \in Tasks :
        /\ {1, 2} \subseteq scan_idle[t] \cup scan_old[t]
        /\ ret[t] = Ret("count", {2})
        /\ stuck = {1}
        /\ true_returns[2] = 1
        /\ sessions = << >>

\* C19: when close_all returns (at once on an empty registry, or from its
\* loop), it returns a count, the registry is empty and every session
\* issued so far has had quit invoked on its driver, also with
\* create_session and close_session calls running beside it.
C19_Return(t) ==
    (\/ close_all(t) /\ DOMAIN sessions = {}
     \/ op[t] = "close_all" /\ op'[t] = "none")
       => /\ ret'[t].kind = "count"
          /\ DOMAIN sessions' = {}
          /\ \A id \in Issued : quit_calls'[id] >= 1

C19_CloseAllEmpties == [][\A t \in Tasks : C19_Return(t)]_vars

\* C20: with no clear_elements call, the ids register_element returns carry
\* strictly increasing counter values, so none equals an id issued before,
\* whether that one is still registered, was removed by remove_element or
\* was dropped as stale by get_element.
C20_IdsIncrease ==
    /\ \A i, j \in 1..Len(issued) : i < j => issued[i] < issued[j]
    /\ DOMAIN element_map \subseteq Elems(issued)
    /\ \A i \in 1..Len(issued) : issued[i] <= element_counter

\* Three ids were issued: the first was dropped as stale, the second was
\* removed, the third is registered.
C20_Witness ==
    /\ Len(issued) = 3
    /\ 1 \in reported_stale
    /\ 2 \notin reported_stale
    /\ DOMAIN element_map = {issued[3]}

\* C16: a sweep pass starts only while the shutdown event is clear: once
\* stop has set it, the loop starts no pass, also when the interval timer
\* had fired before the event was set.
C16_NoPassAfterSignal == [][SweepPass => ~shutdown_event]_vars

\* The timer had fired and the loop was due to resume with its timeout when
\* stop set the event and cancelled the task.
C16_Witness ==
    /\ shutdown_event
    /\ sweeper_pc = "timeout"
    /\ must_cancel
    /\ DOMAIN sessions # {}

\* C18: while the shutdown close_all runs and after it, the sweeper task is
\* done: it is in no pass, has no cancellation pending, and it starts no
\* pass and removes no session.
C18_State ==
    lifespan_pc \in {"closing", "down"} =>
       /\ shutdown_event
       /\ sweeper_pc = "done"
       /\ ~must_cancel
       /\ pc[Sweeper] = "idle"
       /\ op[Sweeper] = "none"

C18_Step ==
    lifespan_pc' \in {"closing", "down"} =>
       /\ ~SweepPass
       /\ ~CloseEnter(Sweeper)
       /\ ~QuitReturn(Sweeper)

C18_SweeperStoppedFirst == [](C18_State) /\ [][C18_Step]_vars

\* The sweeper was cancelled inside a pass, after it had popped a session,
\* and the shutdown close_all is now tearing down another session.
C18_Witness ==
    /\ lifespan_pc = "closing"
    /\ pc[Main] = "close_quit"
    /\ ret[Sweeper] = Ret("CancelledError", {})
    /\ \E id \in Issued \ DOMAIN sessions :
          /\ quit_calls[id] = 1
          /\ true_returns[id] = 0
          /\ id # arg[Main]

\* C21: get_element with an id that is not in the registry, because it was
\* never issued or because its entry was removed, raises
\* ElementNotFoundError and leaves the registry, the id counter and
\* last_activity as they were.
C21_Step(id) ==
    (get_element(id) /\ id \notin DOMAIN element_map) =>
        /\ elem_ret' = Ret("ElementNotFoundError", {})
        /\ UNCHANGED <<element_map, element_counter, last_activity>>

C21_MissChangesNothing == [][\A id \in ElemNameable : C21_Step(id)]_vars

\* A lookup has missed while time had passed since the last activity, an
\* issued id was out of the registry and another entry was in it.
C21_Witness ==
    /\ elem_ret = Ret("ElementNotFoundError", {})
    /\ last_activity < now
    /\ element_map # << >>
    /\ \E i \in Elems(issued) : i \notin DOMAIN element_map

\* C22: the id register_element (or register_elements) returns for an
\* element names that element in the registry, and keeps naming it while the
\* entry is there; get_element with the id of a registered element that is
\* attached, in a browser that answers, returns that element, leaves the
\* registry as it was and sets last_activity to the current time, at every
\* call.
C22_Registered(els) ==
    \A i \in 1..Len(els) :
        LET id == issued'[Len(issued) + i]
        IN  /\ id \in DOMAIN element_map'
            /\ element_map'[id] = els[i]

C22_Step ==
    /\ \A el \in Refs : register_element(el) => C22_Registered(<<el>>)
    /\ \A els \in RefLists : register_elements(els) => C22_Registered(els)
    /\ \A id \in DOMAIN element_map \cap DOMAIN element_map' :
           element_map'[id] = element_map[id]
    /\ \A id \in DOMAIN element_map :
           (get_element(id) /\ ProbeOutcome(element_map[id]) = "returns") =>
               /\ elem_ret' = Ret("element", {element_map[id]})
               /\ element_map' = element_map
               /\ last_activity' = now

C22_RoundTrip == [][C22_Step]_vars

\* A registered element was returned by a lookup made after time had passed,
\* with another element of the registry detached.
C22_Witness ==
    /\ now > 0
    /\ last_activity = now
    /\ \E id \in DOMAIN element_map :
           /\ elem_ret = Ret("element", {element_map[id]})
           /\ element_map[id] \notin detached
    /\ \E id \in DOMAIN element_map : element_map[id] \in detached

\* C30: remove_element(id) returns True exactly when id is in the registry;
\* afterwards id is out of it, every other entry is as it was and the id
\* counter is unchanged (so is last_activity); for an id that is not in the
\* registry it returns False and changes nothing.
C30_Step(id) ==
    remove_element(id) =>
        /\ elem_ret' = Ret(IF id \in DOMAIN element_map THEN "True" ELSE "False", {})
        /\ DOMAIN element_map' = DOMAIN element_map \ {id}
        /\ \A i \in DOMAIN element_map' : element_map'[i] = element_map[i]
        /\ UNCHANGED <<element_counter, last_activity>>

C30_RemoveExact == [][\A id \in ElemNameable : C30_Step(id)]_vars

\* A removal returned True and left a later entry in the registry, below
\* the counter.
C30_Witness ==
    /\ elem_ret = Ret("True", {})
    /\ \E i \in Elems(issued) :
           /\ i \notin DOMAIN element_map
           /\ \E j \in DOMAIN element_map : i < j
    /\ element_counter > Cardinality(DOMAIN element_map)

\* C29: whenever the probe made by get_element on a registered element
\* fails, whatever the failure, the entry is removed and the call raises
\* ElementStaleError.
C29_Step(id) ==
    (/\ get_element(id)
     /\ id \in DOMAIN element_map
     /\ ProbeOutcome(element_map[id]) # "returns") =>
        /\ elem_ret' = Ret("ElementStaleError", {})
        /\ id \notin DOMAIN element_map'

C29_ProbeFailureIsStale == [][\A id \in ElemIds : C29_Step(id)]_vars

\* C26: every failure of the factory call made by create_session reaches the
\* caller as GridConnectionError, whatever failed (the launch, a
\* configuration step after it, an unsupported browser type).
C26_Step(t) == FactoryFail(t) => ret'[t] = Ret("GridConnectionError", {})

C26_FactoryFailureWrapped == [][\A t \in Tasks : C26_Step(t)]_vars

\* C27: a create_session call that succeeds has made one factory call (it
\* entered the factory once, from its exclusive section, and left it by the
\* return that registered the session), and binds the driver this call
\* returned to exactly one new session; the drivers of two registered
\* sessions differ, and so do the driver of a registered session and one of
\* a session being torn down.
C27_State ==
    /\ \A i, j \in DOMAIN sessions :
           i # j => sessions[i].driver # sessions[j].driver
    /\ \A t \in Tasks : \A i \in DOMAIN sessions :
           pc[t] = "close_quit" => session[t] # sessions[i].driver

C27_Step(t) ==
    LET new == DOMAIN sessions' \ DOMAIN sessions
    IN  /\ (pc'[t] = "create_factory" /\ pc[t] # "create_factory") =>
               (pc[t] = "create_lock" /\ new = {})
        /\ (pc[t] = "create_factory" /\ pc'[t] # "create_factory") =>
               (pc'[t] = "idle" /\ (FactoryReturn(t) \/ FactoryFail(t)))
        /\ FactoryReturn(t) =>
               /\ Cardinality(new) = 1
               /\ ret'[t] = Ret("session", new)
               /\ \A id \in new : sessions'[id].driver = next_uuid
               /\ next_uuid' > next_uuid
        /\ new # {} => \E u \in Tasks : FactoryReturn(u)

C27_OneDriverPerSession == [](C27_State) /\ [][\A t \in Tasks : C27_Step(t)]_vars

\* Two create_session calls have succeeded and both sessions are registered.
C27_Witness ==
    /\ DOMAIN sessions = {1, 2}
    /\ \E t \in Tasks : ret[t] = Ret("session", {2})

\* C28: map_selenium_error gives each core error its fixed code whatever the
\* message says: SessionNotFoundError SESSION_NOT_FOUND, SessionLimitError
\* SESSION_LIMIT_REACHED, ElementNotFoundError ELEMENT_NOT_FOUND,
\* ElementStaleError ELEMENT_STALE, GridConnectionError GRID_UNAVAILABLE; an
\* exception that is an instance of no class of the map (its type is
\* unmapped, directly and through its bases) and of WebDriverException
\* neither is given UNKNOWN_ERROR.
C28_CoreCodes ==
    << <<"SessionNotFoundError", "SESSION_NOT_FOUND">>,
       <<"SessionLimitError", "SESSION_LIMIT_REACHED">>,
       <<"ElementNotFoundError", "ELEMENT_NOT_FOUND">>,
       <<"ElementStaleError", "ELEMENT_STALE">>,
       <<"GridConnectionError", "GRID_UNAVAILABLE">> >>

C28_FixedCodes ==
    mapped.code # "none" =>
        /\ \A i \in 1..Len(C28_CoreCodes) :
               (exc.cls = C28_CoreCodes[i][1] /\ ~exc.sub) =>
                   mapped.code = C28_CoreCodes[i][2]
        /\ (Mro(exc.cls) \cap (MappedClasses \cup {"WebDriverException"}) = {}) =>
               mapped.code = "UNKNOWN_ERROR"

\* A SessionNotFoundError whose message reads like a terminated browser
\* session was mapped.
C28_Witness ==
    /\ exc.cls = "SessionNotFoundError"
    /\ ~exc.sub
    /\ {"session", "not found"} \subseteq exc.msg
    /\ mapped.code = "SESSION_NOT_FOUND"

\* C23: the registrations that concurrent tool calls make on one session do
\* not interfere: the ids the calls in progress have received are pairwise
\* different, each names the element its call registered, and every
\* registration adds exactly one entry to that session's registry and
\* touches no other registry; a call that has a registration to make is
\* never made to wait, whoever holds the registry lock or a session lock.
C23_Pairs == {<<t, i>> \in Tasks \X (1..MaxRegistrations) : i <= Len(results[t])}

C23_State ==
    /\ \A p, q \in C23_Pairs :
           (p # q /\ target[p[1]] = target[q[1]]) =>
               results[p[1]][p[2]] # results[q[1]][q[2]]
    /\ \A p \in C23_Pairs :
           LET elements == registry[target[p[1]]].map
               id == results[p[1]][p[2]]
           IN  id \in DOMAIN elements /\ elements[id] = p[2]
    /\ \A s \in SessionIds : element_count(s) = registry[s].counter
    /\ \A t \in Tasks :
           pc[t] = "query_serialize" => ENABLED SerializeReturns(t, "returns")

C23_Step ==
    \A s \in SessionIds :
        registry'[s] # registry[s] =>
            /\ Cardinality(DOMAIN registry'[s].map) = element_count(s) + 1
            /\ \A id \in DOMAIN registry[s].map :
                   /\ id \in DOMAIN registry'[s].map
                   /\ registry'[s].map[id] = registry[s].map[id]
            /\ \A r \in SessionIds \ {s} : registry'[r] = registry[r]

C23_RegistrationsSerialized == [](C23_State) /\ [][C23_Step]_vars

\* Two calls on the same session have registered in turn: the first one
\* element, then the second one, then the first its second element.
C23_Witness ==
    /\ target[1] = target[2]
    /\ results[1] = <<1, 3>>
    /\ results[2] = <<2>>

\* C24: when close_session(id) returns True, the element registry of the
\* session it closed is empty (element_count 0).
C24_Step(id) ==
    true_returns'[id] > true_returns[id] =>
        Cardinality(DOMAIN registry'[id].map) = 0

C24_ClosedSessionHasNoElements == [][\A id \in SessionIds : C24_Step(id)]_vars

\* C25: list_sessions returns one summary for each registered session whose
\* browser equals the filter when both are lower-cased (for each registered
\* session when there is no filter) and for no other session, and the
\* element_count of each summary is the size of that session's element
\* registry.
C25_Chrome == {"chrome", "Chrome", "CHROME"}

C25_Wanted(id, f) ==
    /\ id \in DOMAIN sessions
    /\ f = "" \/ browser[id] = f \/ {browser[id], f} \subseteq C25_Chrome

C25_Step(t, f) ==
    ListSessions(t, f) =>
        /\ listed'.kind = "list"
        /\ \A id \in SessionIds :
               Cardinality({i \in 1..Len(listed'.val) :
                               listed'.val[i].session_id = id})
                  = IF C25_Wanted(id, f) THEN 1 ELSE 0
        /\ \A i \in 1..Len(listed'.val) :
               listed'.val[i].element_count =
                   Cardinality(DOMAIN registry[listed'.val[i].session_id].map)

C25_ListExact == [][\A t \in Tasks : \A f \in Filters : C25_Step(t, f)]_vars

\* The same statement for the calls made while the browser of every
\* listed session answers
C25_ListExactWhenReachable ==
    [][\A t \in Tasks : \A f \in Filters :
          (\A id \in SessionIds :
              C25_Wanted(id, f) => sessions[id].driver \notin crashed)
             => C25_Step(t, f)]_vars

\* C31: while the factory call of one create_session is in progress, the
\* operations on sessions that are already registered can complete without
\* waiting for it: get_session, and close_session, which then can enter its
\* exclusive section.
C31_Step(t, u) ==
    (pc[t] = "create_factory" /\ u # t) =>
        /\ pc[u] = "idle" => \A id \in DOMAIN sessions : ENABLED get_session(u, id)
        /\ (pc[u] = "close_lock" /\ op[u] = "close" /\ arg[u] \in DOMAIN sessions)
              => ENABLED CloseEnter(u)

C31_OthersProceedDuringFactoryCall == \A t, u \in Tasks : C31_Step(t, u)

\* The same statement for get_session alone
C31_GetSessionProceeds ==
    \A t, u \in Tasks :
        (pc[t] = "create_factory" /\ u # t /\ pc[u] = "idle") =>
            \A id \in DOMAIN sessions : ENABLED get_session(u, id)

\* C34: a sweep pass removes a session only if the session is expired at the
\* moment of the removal; a session touched between the pass's scan and its
\* close is not evicted by that pass.
C34_Step(t) ==
    (/\ pc[t] = "close_lock"
     /\ op[t] = "sweep"
     /\ arg[t] \in DOMAIN sessions
     /\ arg[t] \notin DOMAIN sessions') => IsExpired(arg[t])

C34_RemovedOnlyWhenExpired == [][\A t \in Tasks : C34_Step(t)]_vars

\* C35: no command is sent to a session's driver once the teardown of that
\* driver has started.  A tool call sends a command when it registers an
\* element and goes on to serialize it (serialize_element and is_clickable
\* run on the driver); the driver of session s is the one numbered s.
C35_Step(t) ==
    (/\ pc[t] \in {"query_find", "query_serialize"}
     /\ pc'[t] = "query_serialize"
     /\ results'[t] # results[t]) => quit_calls[target[t]] = 0

C35_NoCommandAfterQuit == [][\A t \in Tasks : C35_Step(t)]_vars

\* C38: at any instant at most one call is inside a factory call or inside a
\* driver teardown started by close_session (never one of each), and the call
\* that is there holds the registry lock.
C38_InProgress == {t \in Tasks : pc[t] \in {"create_factory", "close_quit"}}

C36_Quiescent == \A t \in Tasks : pc[t] = "idle"

\* The drivers the factory has returned
C36_Returned == 1..(next_uuid - 1)

C36_Accounted(d) ==
    \/ \E id \in DOMAIN sessions : sessions[id].driver = d
    \/ quit_calls[d] > 0

C36_NoBrowserLeft ==
    C36_Quiescent => /\ \A d \in C36_Returned : C36_Accounted(d)
                     /\ ~orphaned

\* The same statement for the browsers whose create call returned
C36_ReturnedAccounted ==
    C36_Quiescent => \A d \in C36_Returned : C36_Accounted(d)

\* C37: provided every factory call and every teardown returns, no task
\* waits forever for the registry lock or a session lock: every call of
\* create_session, close_session, sweep_expired and close_all comes to its
\* end, and a task that is in no call holds no lock, whichever way its call
\* ended.
C37_Released ==
    \A t \in Tasks : pc[t] = "idle" =>
        /\ mgr_lock # t
        /\ \A i \in SessionIds : sess_lock[i] # t

C37_DeadlockFree ==
    /\ [](C37_Released)
    /\ \A t \in Tasks : (pc[t] # "idle") ~> (pc[t] = "idle")

\* A creator waits for the registry lock while a teardown holds it
C37_Witness ==
    \E t, u \in Tasks :
        pc[t] = "create_lock" /\ mgr_lock = u /\ pc[u] = "close_quit"

\* C32: while the sweeper runs and shutdown is not signalled, an error raised
\* by a sweep pass does not end the loop, sweep passes keep occurring, and,
\* once the passes stop raising, no session stays registered and expired
\* forever.
C32_StaysExpired(id) == id \in DOMAIN sessions /\ IsExpired(id)

C32_SweeperEnforces ==
    /\ [](sweeper_pc # "done")
    /\ []<><<SweepPass>>_vars
    /\ <>[][~PassFails]_vars =>
          \A id \in SessionIds : []<>(~C32_StaysExpired(id))

\* A pass of the sweeper has raised while an expired session is registered
C32_Witness ==
    /\ ret[Sweeper] = Ret("Exception", {})
    /\ sweeper_pc = "wait"
    /\ \E id \in SessionIds : C32_StaysExpired(id)

\* C33: once a stop() has returned, whatever start() and stop() calls came
\* before it, no sweep loop of the sweeper is running and no sweep pass
\* begins; after the start() that follows, exactly one sweep loop runs.
C33_State ==
    /\ last_call = "stopped" => Running = {}
    /\ last_call = "restarted" => Cardinality(Running) = 1

C33_Step(l) == PassBegins(l) => last_call # "stopped"

C33_RestartSafe ==
    /\ [](C33_State)
    /\ [][\A l \in LoopIds : C33_Step(l)]_vars

\* C39: list_sessions and get_expired_sessions leave the last_activity of
\* every session as it is, so listing and scanning postpone no idle expiry;
\* the last_activity of a session changes only in get_session on that
\* session, in register_element and in a get_element that returns the
\* element.
C39_Reads(t) ==
    (list_sessions(t) \/ CallGetExpired(t)) =>
        /\ sessions' = sessions
        /\ last_activity' = last_activity
        /\ \A id \in DOMAIN sessions : IsExpired(id)' = IsExpired(id)

C39_ManagerWrites(id) ==
    (/\ id \in DOMAIN sessions
     /\ id \in DOMAIN sessions'
     /\ sessions'[id].last_activity # sessions[id].last_activity)
        => \E t \in Tasks : get_session(t, id)

C39_SessionWrites ==
    last_activity' # last_activity =>
        \/ \E el \in Refs : register_element(el)
        \/ \E id \in ElemIds : get_element(id) /\ elem_ret'.kind = "element"

C39_Step ==
    /\ \A t \in Tasks : C39_Reads(t)
    /\ \A id \in SessionIds : C39_ManagerWrites(id)
    /\ C39_SessionWrites

C39_OnlyUseIsActivity == [][C39_Step]_vars

\* A listing or a scan has returned a session whose idle expiry is due
C39_Witness ==
    \E t \in Tasks : \E id \in DOMAIN sessions :
        /\ ret[t].kind = "list"
        /\ id \in ret[t].val
        /\ now - sessions[id].last_activity > max_idle_seconds

====
